---------------------------- MODULE Spec2Model ----------------------------
(***************************************************************************)
(* Lead-enrichment pipeline of src/src/lib/runEnrichment.ts.               *)
(*                                                                         *)
(* Text is modelled as a sequence of symbols.  A symbol is one character   *)
(* (" ", "@", "a", ...) or one indivisible lexical unit of a JSON record   *)
(* ("{" opens a record, the next symbol is the value of its "type" field,  *)
(* the symbols up to "}" are the characters of its "data" field).          *)
(*                                                                         *)
(* The specifications of the module:                                       *)
(*   SpecStream    one sendMessage call reading one response stream, chunk *)
(*                 by chunk (the while loop of lines 432-464);             *)
(*   Spec          one enrichLeads call: validation, provider resolution,  *)
(*                 the per-lead question loop, scoring, extraction, pacing;*)
(*   SpecLive      Spec with every pending call and timer settling;        *)
(*   SpecScore     the parse of one scoring response (lines 144-158);      *)
(*   SpecExtract   the parse of one extraction response (lines 203-213);   *)
(*   SpecSend      sendMessage on one response of the chat endpoint, up to *)
(*                 the read loop (lines 412-426);                          *)
(*   SpecCompany   the company and domain of one email (lines 511-527);    *)
(*   SpecProviders one configureModelProviders call (lines 244-368);       *)
(*   SpecRoute     one POST request to /api/enrich-leads (route.ts);       *)
(*   SpecSingle    one call of enrichLeads or of enrichSingleLead, up to   *)
(*                 the values enrichLeads works on (lines 613-628).        *)
(***************************************************************************)
EXTENDS Integers, Sequences, FiniteSets, TLC

VARIABLES
    \* ---- sendMessage (SpecStream) ----
    stream,           \* the bytes the response body will deliver
    pos,              \* how many of them reader.read() has delivered
    partialChunk,     \* runEnrichment.ts:428
    receivedMessage,  \* runEnrichment.ts:429
    smState,          \* "idle" | "reading" | "returned" | "threw"
    smResult,         \* the returned answer, or the thrown message
    smExit,           \* "none" | "messageEnd" (line 454) | "done" (line 464)
    smCaught,         \* what the catch of line 458 caught in the last iteration
    reads,            \* reader.read() calls that delivered a chunk
    \* ---- enrichLeads (Spec) ----
    emails,           \* params.emails
    pc,               \* where the enrichLeads call stands (its pending await)
    validEmails,      \* runEnrichment.ts:626
    results,          \* runEnrichment.ts:638
    errors,           \* runEnrichment.ts:639
    providers,        \* the resolved {chatModel, embeddingModel} of line 643
    leadIdx,          \* position of the for loop of line 649 (1-based, 0: none)
    qIdx,             \* position of the for loop of line 539 (1-based, 0: none)
    chatId,           \* runEnrichment.ts:530 (0: none minted)
    enrichmentResults,\* runEnrichment.ts:536
    chatHistory,      \* runEnrichment.ts:537
    scoreReport,      \* the {score, reason} of line 569
    response,         \* the LeadEnrichmentResponse returned, once returned
    inflight,         \* outbound calls issued and not yet settled
    calls,            \* outbound calls issued so far
    nextId,           \* source of fresh session identifiers
    envMode,          \* the backends: "ok" or "fail"
    envFlips,         \* how often envMode changed during the batch
    failKind,         \* how a failing chat backend fails
    modelsResponse,   \* what GET /api/models answers (line 226)
    resolutions,      \* configureModelProviders calls made (line 643)
    \* ---- one function on its own (SpecScore, SpecExtract, SpecSend, ...) ----
    fnInput,          \* the input handed to the function
    fnOutput,         \* what the function returned
    fnState,          \* "idle" | "ready" | "done"
    \* ---- the scrape endpoint (SpecSeed) ----
    seedCache         \* part_000:6, the seeds stored under their own keys

smVars == <<stream, pos, partialChunk, receivedMessage, smState, smResult, smExit,
           smCaught, reads>>

leadVars == <<leadIdx, qIdx, chatId, enrichmentResults, chatHistory, scoreReport>>

envVars == <<envMode, envFlips, failKind, modelsResponse>>

batchVars == <<emails, pc, validEmails, results, errors, providers, leadVars,
               response, inflight, calls, nextId, resolutions, envVars>>

fnVars == <<fnInput, fnOutput, fnState, seedCache>>

vars == <<smVars, batchVars, fnVars>>

----------------------------------------------------------------------------
(* Bounds of the model.                                                    *)

MaxLines == 2    \* lines of a generated response stream
MaxCut == 2      \* symbols a stream may lose at its end
MaxEmails == 2   \* entries of params.emails
MaxFlips == 1    \* changes of the backends between up and down
MaxScoreLen == 4     \* symbols of a generated scoring response
MaxExtractLen == 5   \* symbols of a generated extraction response
MaxBodyTail == 4     \* varying symbols at the end of an error response body
MaxEmailLen == 5     \* symbols of a generated email address
MaxProviders == 2    \* providers of a generated provider map
MaxDistinct == 52    \* distinct addresses of a generated request (above MAX_EMAILS)
MaxRepeats == 2      \* repeated addresses of a generated request

----------------------------------------------------------------------------
(* Text helpers: String.prototype.trim, split, slice.                      *)

NL == "\n"
SP == " "
Whitespace == {SP, NL}

RECURSIVE TrimLeft(_)
TrimLeft(s) ==
    IF s = <<>> THEN <<>>
    ELSE IF Head(s) \in Whitespace THEN TrimLeft(Tail(s)) ELSE s

RECURSIVE TrimRight(_)
TrimRight(s) ==
    IF s = <<>> THEN <<>>
    ELSE IF s[Len(s)] \in Whitespace THEN TrimRight(SubSeq(s, 1, Len(s) - 1)) ELSE s

Trim(s) == TrimRight(TrimLeft(s))

\* s.split(sep): the pieces between the separators; a trailing separator
\* yields a trailing empty piece, and the empty text yields one empty piece.
RECURSIVE SplitFrom(_, _, _)
SplitFrom(s, sep, cur) ==
    IF s = <<>> THEN <<cur>>
    ELSE IF Head(s) = sep THEN <<cur>> \o SplitFrom(Tail(s), sep, <<>>)
    ELSE SplitFrom(Tail(s), sep, Append(cur, Head(s)))

Split(s, sep) == SplitFrom(s, sep, <<>>)

Includes(s, c) == \E i \in 1..Len(s) : s[i] = c

\* String.prototype.toLowerCase; "A" is the upper-case letter of the texts.
LowerCase(e) == [i \in 1..Len(e) |-> IF e[i] = "A" THEN "a" ELSE e[i]]

\* Array.from(new Set(es)): each value once, in the order of first occurrence.
RECURSIVE Dedupe(_)
Dedupe(es) ==
    IF es = <<>> THEN <<>>
    ELSE LET front == Dedupe(SubSeq(es, 1, Len(es) - 1))
             last == es[Len(es)]
         IN  IF \E i \in 1..Len(front) : front[i] = last THEN front ELSE Append(front, last)

----------------------------------------------------------------------------
(* The stream records of the chat backend and JSON.parse on one line.      *)

RecordTypes == {"error", "message", "messageEnd", "sources"}
DataChars == {"H", "e", "l", "o", "a", "b", SP, "boom"}

Record(type, data) == <<"{", type>> \o data \o <<"}">>

\* JSON.parse(msg) of lines 443: surrounding whitespace is skipped; a proper
\* prefix of a record, or any other text, raises a SyntaxError.
JsonParse(msg) ==
    LET t == Trim(msg)
        n == Len(t)
        ok == /\ n >= 3
              /\ t[1] = "{"
              /\ t[2] \in RecordTypes
              /\ t[n] = "}"
              /\ \A i \in 3..(n - 1) : t[i] \in DataChars
    IN  IF ok THEN [ok |-> TRUE, type |-> t[2], data |-> SubSeq(t, 3, n - 1)]
        ELSE [ok |-> FALSE, type |-> "", data |-> <<>>]

----------------------------------------------------------------------------
(* sendMessage: the read loop over the response body (lines 426-464).      *)

\* The for loop of lines 440-456 over the lines of the buffer, from line i on.
\* kind "return": a messageEnd record was reached (line 454);
\* kind "throw":  JSON.parse raised, or line 446 raised on an error record;
\* kind "end":    the loop ran off the end of the lines.
\* received is receivedMessage as the loop left it: line 450 has acted on
\* every message record passed before the return or the throw.
\* HandleRecord without the return of line 454: a messageEnd record is
\* passed over like a record of any other type.
HandleRecordWithoutReturn(data, received) ==
    IF data.type = "error"
        THEN [kind |-> "throw", received |-> received, error |-> data.data]
    ELSE IF data.type = "message"
        THEN [kind |-> "next", received |-> received \o data.data, error |-> <<>>]
    ELSE [kind |-> "next", received |-> received, error |-> <<>>]

\* Lines 445-455 on one parsed record.
HandleRecord(data, received) ==
    IF data.type = "error"
        THEN [kind |-> "throw", received |-> received, error |-> data.data]
    ELSE IF data.type = "message"
        THEN [kind |-> "next", received |-> received \o data.data, error |-> <<>>]
    ELSE IF data.type = "messageEnd"
        THEN [kind |-> "return", received |-> received, error |-> <<>>]
    ELSE [kind |-> "next", received |-> received, error |-> <<>>]

RECURSIVE ForEachLine(_, _, _)
ForEachLine(messages, i, received) ==
    IF i > Len(messages) THEN [kind |-> "end", received |-> received, error |-> <<>>]
    ELSE IF Trim(messages[i]) = <<>> THEN ForEachLine(messages, i + 1, received)
    ELSE LET data == JsonParse(messages[i])
         IN  IF ~data.ok
                THEN [kind |-> "throw", received |-> received, error |-> <<"SyntaxError">>]
             ELSE LET h == HandleRecord(data, received)
                  IN  IF h.kind = "next" THEN ForEachLine(messages, i + 1, h.received)
                      ELSE h

\* The try body of lines 438-457 on the buffer after line 436 appended the chunk.
TryBody(buffer, received) == ForEachLine(Split(buffer, NL), 1, received)

\* LoopIteration with a catch that drops the buffer it could not parse.
LoopIterationDroppingBuffer(partial, received, chunk) ==
    LET buffer == partial \o chunk
        r == TryBody(buffer, received)
    IN  CASE r.kind = "return" ->
                [state |-> "returned", exit |-> "messageEnd", partialChunk |-> buffer,
                 receivedMessage |-> r.received, result |-> Trim(r.received),
                 caught |-> <<>>]
          [] r.kind = "throw" ->
                [state |-> "reading", exit |-> "none", partialChunk |-> <<>>,
                 receivedMessage |-> r.received, result |-> <<>>,
                 caught |-> r.error]
          [] OTHER ->
                [state |-> "reading", exit |-> "none", partialChunk |-> <<>>,
                 receivedMessage |-> r.received, result |-> <<>>,
                 caught |-> <<>>]

\* One iteration of the while loop with a chunk delivered (lines 433-461).
\* The catch of lines 458-461 receives every throw of the try body, the one
\* of line 446 included, and continues with the buffer as it is; line 457
\* empties the buffer only when the for loop ended normally.
LoopIteration(partial, received, chunk) ==
    LET buffer == partial \o chunk
        r == TryBody(buffer, received)
    IN  CASE r.kind = "return" ->
                [state |-> "returned", exit |-> "messageEnd", partialChunk |-> buffer,
                 receivedMessage |-> r.received, result |-> Trim(r.received),
                 caught |-> <<>>]
          [] r.kind = "throw" ->
                [state |-> "reading", exit |-> "none", partialChunk |-> buffer,
                 receivedMessage |-> r.received, result |-> <<>>,
                 caught |-> r.error]
          [] OTHER ->
                [state |-> "reading", exit |-> "none", partialChunk |-> <<>>,
                 receivedMessage |-> r.received, result |-> <<>>,
                 caught |-> <<>>]

\* AtStreamEnd raising instead of returning the partial answer.
AtStreamEndThrowing(received) ==
    [state |-> "threw", exit |-> "done", result |-> <<"stream ended without messageEnd">>]

\* reader.read() resolved with done (line 434), then line 464.
AtStreamEnd(received) ==
    [state |-> "returned", exit |-> "done", result |-> Trim(received)]

\* sendMessage on a body delivered as the given chunks, from the state
\* (partial, received): the whole loop, as a function of the chunking.
RECURSIVE ReadAll(_, _, _)
ReadAll(chunks, partial, received) ==
    IF chunks = <<>> THEN AtStreamEnd(received)
    ELSE LET it == LoopIteration(partial, received, Head(chunks))
         IN  IF it.state = "returned"
                THEN [state |-> "returned", exit |-> it.exit, result |-> it.result]
             ELSE ReadAll(Tail(chunks), it.partialChunk, it.receivedMessage)

\* Values of variables that hold nothing yet.
NoProviders ==
    [chatModel |-> [provider |-> "", name |-> ""],
     embeddingModel |-> [provider |-> "", name |-> ""]]
NoScoreReport == [score |-> [int |-> -1, frac |-> <<>>], reason |-> <<>>]
NoModelsResponse ==
    [rejected |-> FALSE, ok |-> FALSE, status |-> "",
     chatModelProviders |-> <<>>, embeddingModelProviders |-> <<>>]
NoResponse == [success |-> FALSE, results |-> <<>>, errors |-> <<>>]

----------------------------------------------------------------------------
(* SpecStream: one sendMessage call on one response body.                  *)

\* The lines a generated stream is built from: two message records (the
\* second with surrounding blanks), messageEnd, an error record, a record of
\* another type, a blank line and a line that is not JSON.
LinePool ==
    { Record("message", <<"a">>),
      Record("message", <<SP, "b", SP>>),
      Record("messageEnd", <<>>),
      Record("error", <<"boom">>),
      Record("sources", <<>>),
      <<SP>>,
      <<"?">> }

\* {"type":"message","data":"Hel"}\n{"type":"message","data":"lo"}\n{"type":"messageEnd"}\n
HelloStream ==
    Record("message", <<"H", "e", "l">>) \o <<NL>> \o
    Record("message", <<"l", "o">>) \o <<NL>> \o
    Record("messageEnd", <<>>) \o <<NL>>

\* A longer body with every kind of harmless line in it: a message, a
\* sources record, a blank line, a second message, messageEnd, and a record
\* after the messageEnd.
MixedStream ==
    Record("message", <<"a">>) \o <<NL>> \o
    Record("sources", <<>>) \o <<NL>> \o
    <<SP, NL>> \o
    Record("message", <<SP, "b", SP>>) \o <<NL>> \o
    Record("messageEnd", <<>>) \o <<NL>> \o
    Record("message", <<"o">>) \o <<NL>>

RECURSIVE JoinLines(_)
JoinLines(ls) == IF ls = <<>> THEN <<>> ELSE Head(ls) \o <<NL>> \o JoinLines(Tail(ls))

LineSeqs == UNION { [1..n -> LinePool] : n \in 0..MaxLines }

\* A body: lines, each ended by a newline, cut short by up to MaxCut symbols
\* (a last line without newline, a connection closed inside a record).
CutEnd(s, c) == SubSeq(s, 1, IF Len(s) > c THEN Len(s) - c ELSE 0)

Streams ==
    { CutEnd(JoinLines(ls), c) : ls \in LineSeqs, c \in 0..MaxCut }
    \cup { CutEnd(HelloStream, c) : c \in 0..MaxCut }
    \cup { CutEnd(MixedStream, c) : c \in 0..MaxCut }

BatchIdle ==
    /\ emails = <<>>
    /\ pc = "idle"
    /\ validEmails = <<>>
    /\ results = <<>>
    /\ errors = <<>>
    /\ providers = NoProviders
    /\ leadIdx = 0
    /\ qIdx = 0
    /\ chatId = 0
    /\ enrichmentResults = <<>>
    /\ chatHistory = <<>>
    /\ scoreReport = NoScoreReport
    /\ response = NoResponse
    /\ inflight = {}
    /\ calls = 0
    /\ nextId = 1
    /\ envMode = "ok"
    /\ envFlips = 0
    /\ failKind = "none"
    /\ modelsResponse = NoModelsResponse
    /\ resolutions = 0

FnIdle ==
    /\ fnInput = <<>>
    /\ fnOutput = <<>>
    /\ fnState = "idle"
    /\ seedCache = {}

StreamIdle ==
    /\ stream = <<>>
    /\ pos = 0
    /\ partialChunk = <<>>
    /\ receivedMessage = <<>>
    /\ smState = "idle"
    /\ smResult = <<>>
    /\ smExit = "none"
    /\ smCaught = <<>>
    /\ reads = 0

\* Lines 426-429: the body is there, nothing read yet.
InitStream ==
    /\ stream \in Streams
    /\ pos = 0
    /\ partialChunk = <<>>
    /\ receivedMessage = <<>>
    /\ smState = "reading"
    /\ smResult = <<>>
    /\ smExit = "none"
    /\ smCaught = <<>>
    /\ reads = 0
    /\ BatchIdle
    /\ FnIdle

\* reader.read() delivers the next n symbols of the body: one loop iteration.
SmRead ==
    /\ smState = "reading"
    /\ \E n \in 1..(Len(stream) - pos) :
         LET chunk == SubSeq(stream, pos + 1, pos + n)
             it == LoopIteration(partialChunk, receivedMessage, chunk)
         IN  /\ pos' = pos + n
             /\ reads' = reads + 1
             /\ partialChunk' = it.partialChunk
             /\ receivedMessage' = it.receivedMessage
             /\ smState' = it.state
             /\ smResult' = it.result
             /\ smExit' = it.exit
             /\ smCaught' = it.caught
    /\ UNCHANGED <<stream, batchVars, fnVars>>

\* reader.read() reports done: the body is exhausted (line 434, then 464).
SmDone ==
    /\ smState = "reading"
    /\ pos = Len(stream)
    /\ smState' = AtStreamEnd(receivedMessage).state
    /\ smResult' = AtStreamEnd(receivedMessage).result
    /\ smExit' = AtStreamEnd(receivedMessage).exit
    /\ UNCHANGED <<stream, pos, partialChunk, receivedMessage, smCaught, reads, batchVars,
                   fnVars>>

NextStream == SmRead \/ SmDone

SpecStream == InitStream /\ [][NextStream]_vars

----------------------------------------------------------------------------
(* The parse of the scoring response (lines 144-158).  The response is a   *)
(* text whose symbols are the labels "Total Score:", "Revenue Score:" and  *)
(* "Reason:", digits, ".", "/90", blanks, newlines and other words.        *)

TotalScoreLabel == "Total Score:"
RevenueScoreLabel == "Revenue Score:"
ReasonLabel == "Reason:"
Digits == {"0", "3", "7", "9"}

DigitValue(d) == CASE d = "0" -> 0 [] d = "3" -> 3 [] d = "7" -> 7 [] OTHER -> 9

\* The value of a run of digits, most significant first.
RECURSIVE DigitsValue(_)
DigitsValue(ds) ==
    IF ds = <<>> THEN 0
    ELSE 10 * DigitsValue(SubSeq(ds, 1, Len(ds) - 1)) + DigitValue(ds[Len(ds)])

\* \s* from position i: the first position that holds no whitespace.
RECURSIVE SkipWhitespace(_, _)
SkipWhitespace(text, i) ==
    IF i <= Len(text) /\ text[i] \in Whitespace THEN SkipWhitespace(text, i + 1) ELSE i

\* \d+ from position i, greedy: the longest run of digits starting there.
RECURSIVE TakeDigits(_, _)
TakeDigits(text, i) ==
    IF i <= Len(text) /\ text[i] \in Digits
    THEN <<text[i]>> \o TakeDigits(text, i + 1)
    ELSE <<>>

\* /Total Score:\s*(\d+(\.\d+)?)/ anchored at position i: group 1 as its
\* integer digits and its fraction digits (empty: no fraction).
TotalScoreAt(text, i) ==
    LET j == SkipWhitespace(text, i + 1)
        int == TakeDigits(text, j)
        k == j + Len(int)
        frac == IF k <= Len(text) /\ text[k] = "." THEN TakeDigits(text, k + 1) ELSE <<>>
    IN  [matched |-> (text[i] = TotalScoreLabel /\ int # <<>>), int |-> int, frac |-> frac]

\* text.match(...) of line 147: the leftmost position where the pattern matches.
ScoreMatch(text) ==
    LET at == { i \in 1..Len(text) : TotalScoreAt(text, i).matched }
    IN  IF at = {} THEN [matched |-> FALSE, int |-> <<>>, frac |-> <<>>]
        ELSE TotalScoreAt(text, CHOOSE i \in at : \A j \in at : i <= j)

\* The match taking any "Reason:" label, rubric block or not.
FullReasonMatchAnyReason(text) ==
    \E j \in 1..Len(text) : text[j] = ReasonLabel

\* /Revenue Score:.*(?:\n.*?)+Reason:\s*([\s\S]*)/ of lines 148-150: a
\* "Revenue Score:" label, the rest of its line, one or more further lines,
\* and a "Reason:" label somewhere on the last of them.
FullReasonMatch(text) ==
    \E i \in 1..Len(text), j \in 1..Len(text) :
        /\ i < j
        /\ text[i] = RevenueScoreLabel
        /\ text[j] = ReasonLabel
        /\ \E k \in (i + 1)..(j - 1) : text[k] = NL

\* parseFloat of group 1: a number as its integer part and fraction digits.
ParseFloat(int, frac) == [int |-> DigitsValue(int), frac |-> frac]

ZeroScore == [int |-> 0, frac |-> <<>>]

\* The parse with line 151 reading scoreMatch[1] without the null test: a
\* response without a score raises, and the catch of lines 153-156 answers.
ParseScoreResponseUnguarded(text) ==
    LET scoreMatch == ScoreMatch(text)
    IN  IF ~scoreMatch.matched
        THEN [raised |-> FALSE, score |-> ZeroScore, reason |-> <<"Parse failed">>]
        ELSE [raised |-> FALSE,
              score |-> ParseFloat(scoreMatch.int, scoreMatch.frac),
              reason |-> IF FullReasonMatch(text) THEN Trim(text) ELSE <<"N/A">>]

\* Lines 144-158.  Neither match raises, so the catch is never entered.
ParseScoreResponse(text) ==
    LET scoreMatch == ScoreMatch(text)
    IN  [raised |-> FALSE,
         score |-> IF scoreMatch.matched
                   THEN ParseFloat(scoreMatch.int, scoreMatch.frac)
                   ELSE ZeroScore,
         reason |-> IF FullReasonMatch(text) THEN Trim(text) ELSE <<"N/A">>]

----------------------------------------------------------------------------
(* The parse of the extraction response (lines 203-213).  The response is  *)
(* a text of braces, commas, blanks, key/value pairs and other words.      *)

CityPair == "\"City\":\"Austin\""
CountryPair == "\"Country\":null"
JsonPairs == {CityPair, CountryPair}

\* The first position from i on that holds symbol c, 0 when there is none.
RECURSIVE FindFrom(_, _, _)
FindFrom(text, c, i) ==
    IF i > Len(text) THEN 0 ELSE IF text[i] = c THEN i ELSE FindFrom(text, c, i + 1)

\* The match of line 205 made greedy: from the first "{" to the last "}".
RECURSIVE FindLast(_, _, _)
FindLast(text, c, i) ==
    IF i < 1 THEN 0 ELSE IF text[i] = c THEN i ELSE FindLast(text, c, i - 1)

FirstJsonMatchGreedy(text) ==
    LET i == FindFrom(text, "{", 1)
        j == FindLast(text, "}", Len(text))
    IN  IF i = 0 \/ j <= i THEN [matched |-> FALSE, text |-> <<>>]
        ELSE [matched |-> TRUE, text |-> SubSeq(text, i, j)]

\* text.match(/\{[\s\S]*?\}/) of line 205: from the first "{" to the first
\* "}" after it.
FirstJsonMatch(text) ==
    LET i == FindFrom(text, "{", 1)
        j == IF i = 0 THEN 0 ELSE FindFrom(text, "}", i + 1)
    IN  IF i = 0 \/ j = 0 THEN [matched |-> FALSE, text |-> <<>>]
        ELSE [matched |-> TRUE, text |-> SubSeq(text, i, j)]

\* JSON.parse of the members of an object after its "{": pair ("," pair)* "}".
RECURSIVE ParseMembers(_, _)
ParseMembers(tokens, object) ==
    IF Len(tokens) < 2 \/ tokens[1] \notin JsonPairs THEN [ok |-> FALSE, object |-> {}]
    ELSE IF tokens[2] = "}"
        THEN [ok |-> Len(tokens) = 2, object |-> object \cup {tokens[1]}]
    ELSE IF tokens[2] = ","
        THEN ParseMembers(SubSeq(tokens, 3, Len(tokens)), object \cup {tokens[1]})
    ELSE [ok |-> FALSE, object |-> {}]

\* JSON.parse (line 207) of a text that starts with "{": whitespace between
\* tokens is skipped; the object is the set of its pairs.
JsonParseObject(text) ==
    LET tokens == SelectSeq(text, LAMBDA c : c \notin Whitespace)
    IN  IF Len(tokens) < 2 \/ tokens[1] # "{" THEN [ok |-> FALSE, object |-> {}]
        ELSE IF tokens[2] = "}" THEN [ok |-> Len(tokens) = 2, object |-> {}]
        ELSE ParseMembers(Tail(tokens), {})

\* Lines 203-213: a SyntaxError of JSON.parse is caught and answered by {}.
ParseCrmJson(text) ==
    LET firstJson == FirstJsonMatch(text)
    IN  IF firstJson.matched
        THEN LET parsed == JsonParseObject(firstJson.text)
             IN  IF parsed.ok THEN [raised |-> FALSE, fields |-> parsed.object]
                 ELSE [raised |-> FALSE, fields |-> {}]
        ELSE [raised |-> FALSE, fields |-> {}]

----------------------------------------------------------------------------
(* Errors, and the pure helpers of processLeadEnrichment and enrichLeads.  *)

\* A thrown value: an Error object with its message, a bare string, or a
\* falsy value (null, undefined).
ErrorOf(message) == [type |-> "Error", message |-> message]

toErrorString(err) ==
    IF err.type = "falsy" THEN <<"Unknown error">>
    ELSE IF err.type = "Error" THEN err.message
    ELSE IF err.type = "string" THEN err.message
    ELSE <<"[object]">>

NumQuestions == 11

QuestionTemplates ==
    <<"Q1 description", "Q2 website", "Q3 revenue", "Q4 employees", "Q5 years",
      "Q6 funding", "Q7 fortune500", "Q8 fortune100", "Q9 clients",
      "Q10 industry", "Q11 linkedin">>

\* Templates 2 and 3 embed the full domain, the others the company name.
generateEnrichmentQuestions(company, fullDomain) ==
    [k \in 1..NumQuestions |->
        <<QuestionTemplates[k]>> \o (IF k \in {2, 3} THEN fullDomain ELSE company)]

\* extractCompanyInfo (lines 512-522); the email holds an '@'.
extractCompanyInfo(email) ==
    LET domain == Split(email, "@")[2]
    IN  [companyName |-> Split(domain, ".")[1], fullDomain |-> domain]

\* Line 552.
PushResult(er, question, answer) ==
    Append(er, [question |-> question, answer |-> answer])

\* PushHistory with the two pushes in the other order.
PushHistoryAssistantFirst(hist, question, answer) ==
    hist \o << <<"assistant", answer>>, <<"human", question>> >>

\* Lines 555-556.
PushHistory(hist, question, answer) ==
    hist \o << <<"human", question>>, <<"assistant", answer>> >>

\* CatchQuestionResults dropping the failed question instead of recording it.
CatchQuestionResultsOmitting(er, question, error) == er

\* The catch of lines 560-566: the placeholder is recorded; chatHistory is
\* not touched and no delay is started.
CatchQuestionResults(er, question, error) ==
    Append(er, [question |-> question,
                answer |-> <<"Error: ">> \o toErrorString(error)])

CatchQuestionHistory(hist, question, error) == hist

\* FilterValidEmails without the filter of line 628.
FilterValidEmailsKeepingAll(es) == [i \in 1..Len(es) |-> Trim(es[i])]

\* Lines 626-628.
FilterValidEmails(es) ==
    SelectSeq([i \in 1..Len(es) |-> Trim(es[i])],
              LAMBDA e : Includes(e, "@") /\ Len(e) > 0)

\* Array.prototype.indexOf, 0-based, -1 when absent.
RECURSIVE IndexFrom(_, _, _)
IndexFrom(s, x, i) ==
    IF i > Len(s) THEN -1 ELSE IF s[i] = x THEN i - 1 ELSE IndexFrom(s, x, i + 1)

IndexOf(s, x) == IndexFrom(s, x, 1)

\* The chatHistory of a lead kept from the lead before it.
HistoryOfEarlierLead(hist) == hist

\* Line 537: every processLeadEnrichment call starts with its own empty
\* chatHistory, whatever the call before it collected.
FreshHistory(hist) == <<>>

\* Lines 587-595.
SuccessOutcome(email, company, cid, er, report, fields) ==
    [email |-> email, company |-> company, chatId |-> cid, enrichmentData |-> er,
     hasScore |-> TRUE, score |-> report.score,
     hasReason |-> TRUE, reason |-> report.reason,
     structuredFields |-> fields,
     hasError |-> FALSE, error |-> <<>>]

\* The error outcome with the score fields of a populated outcome added.
ErrorOutcomeWithScore(email, error) ==
    LET parts == Split(email, "@")
        c == IF Len(parts) >= 2 THEN Split(parts[2], ".")[1] ELSE <<>>
    IN  [email |-> email, company |-> IF c = <<>> THEN <<"unknown">> ELSE c,
         chatId |-> 0, enrichmentData |-> <<>>,
         hasScore |-> TRUE, score |-> ZeroScore,
         hasReason |-> TRUE, reason |-> <<"N/A">>,
         structuredFields |-> {},
         hasError |-> TRUE, error |-> toErrorString(error)]

\* Lines 598-605.
ErrorOutcome(email, error) ==
    LET parts == Split(email, "@")
        c == IF Len(parts) >= 2 THEN Split(parts[2], ".")[1] ELSE <<>>
    IN  [email |-> email, company |-> IF c = <<>> THEN <<"unknown">> ELSE c,
         chatId |-> 0, enrichmentData |-> <<>>,
         hasScore |-> FALSE, score |-> ZeroScore,
         hasReason |-> FALSE, reason |-> <<>>,
         structuredFields |-> {},
         hasError |-> TRUE, error |-> toErrorString(error)]

\* Lines 662-665.
PushLeadError(errs, result) ==
    IF result.hasError /\ result.error # <<>>
    THEN Append(errs, <<"Failed ">> \o result.email \o <<": ">> \o result.error)
    ELSE errs

----------------------------------------------------------------------------
(* The outbound calls and what comes back.                                 *)

Call(kind, lead, q, cid, question, history, evidence, models) ==
    [kind |-> kind, lead |-> lead, q |-> q, chatId |-> cid,
     question |-> question, history |-> history, evidence |-> evidence,
     chatModel |-> models.chatModel, embeddingModel |-> models.embeddingModel]

\* The GET of lines 226-230.
ModelsCall == Call("models", 0, 0, 0, <<>>, <<>>, <<>>, NoProviders)

\* The POST with the chatModelProvider and embeddingModelProvider parameters
\* of enrichLeads in place of the resolved pair.
ChatCallWithRequestedModels(lead, q, cid, question, history, models) ==
    Call("chat", lead, q, cid, question, history, <<>>, NoProviders)

\* The POST of lines 385-412: the body carries the chatId, the history and
\* the two models handed down from line 643.
ChatCall(lead, q, cid, question, history, models) ==
    Call("chat", lead, q, cid, question, history, <<>>, models)

\* chat.sendMessage(prompt) of lines 139-141 and of lines 198-200.
ScoreCall(lead, er) == Call("score", lead, 0, 0, <<>>, <<>>, er, NoProviders)
\* The extraction call handed only the answered questions.
ExtractCallWithoutPlaceholders(lead, er) ==
    Call("extract", lead, 0, 0, <<>>, <<>>,
         SelectSeq(er, LAMBDA e : ~(Len(e.answer) >= 1 /\ e.answer[1] = "Error: ")),
         NoProviders)

ExtractCall(lead, er) == Call("extract", lead, 0, 0, <<>>, <<>>, er, NoProviders)

ChatFailKinds == {"transport", "http", "errorRecord"}

\* What the chat endpoint does with one request: it answers, or fetch
\* rejects, or it answers non-2xx, or it streams an error record.
\* A response of fetch: the fetch was rejected, or it resolved with a status
\* (ok: 2xx), a status text, and a body: the text response.text() gives for
\* it (textReadable: the read of the text does not fail), or absent
\* (hasBody), or the chunks its reader delivers.
Response(rejected, ok, status, statusText, text, textReadable, hasBody, chunks) ==
    [rejected |-> rejected, ok |-> ok, status |-> status, statusText |-> statusText,
     text |-> text, textReadable |-> textReadable, hasBody |-> hasBody, chunks |-> chunks]

ChatResponse(kind) ==
    CASE kind = "ok" ->
            Response(FALSE, TRUE, "200", "OK", <<>>, TRUE, TRUE,
                     << Record("message", <<"a">>) \o <<NL>>
                        \o Record("messageEnd", <<>>) \o <<NL>> >>)
      [] kind = "errorRecord" ->
            Response(FALSE, TRUE, "200", "OK", <<>>, TRUE, TRUE,
                     << Record("error", <<"boom">>) \o <<NL>> >>)
      [] kind = "http" ->
            Response(FALSE, FALSE, "500", "Internal Server Error",
                     <<"o", "o", "p", "s">>, TRUE, TRUE, <<>>)
      [] OTHER ->
            Response(TRUE, FALSE, "", "", <<>>, FALSE, FALSE, <<>>)

\* text.slice(0, n).
Slice(text, n) == SubSeq(text, 1, IF Len(text) < n THEN Len(text) ELSE n)

BodySlice == 200

\* response.text().catch(() => '') of line 415.
BodyText(resp) == IF resp.textReadable THEN resp.text ELSE <<>>

\* Line 416 without the slice.
BodyTailUntruncated(text) == IF text # <<>> THEN <<" | body: ">> \o text ELSE <<>>

\* Line 416.
BodyTail(text) == IF text # <<>> THEN <<" | body: ">> \o Slice(text, BodySlice) ELSE <<>>

\* sendMessage (lines 373-465) on the response the endpoint gives.
sendMessage(resp) ==
    IF resp.rejected
    THEN [threw |-> TRUE, error |-> ErrorOf(<<"fetch failed">>), value |-> <<>>,
          readerOpened |-> FALSE]
    ELSE IF ~resp.ok
    THEN \* lines 414-420
         [threw |-> TRUE,
          error |-> ErrorOf(<<"Chat API ", resp.status, " ", resp.statusText>>
                            \o BodyTail(BodyText(resp))),
          value |-> <<>>, readerOpened |-> FALSE]
    ELSE IF ~resp.hasBody
    THEN \* lines 422-424
         [threw |-> TRUE, error |-> ErrorOf(<<"No response body received from chat API">>),
          value |-> <<>>, readerOpened |-> FALSE]
    ELSE \* lines 426-464
         [threw |-> FALSE, error |-> ErrorOf(<<>>),
          value |-> ReadAll(resp.chunks, <<>>, <<>>).result, readerOpened |-> TRUE]

\* InFlightAfter when the caller did not await: what it was waiting for is
\* still in flight when it issues the next call.
InFlightWithoutAwait(settled, issued) == inflight \cup issued

\* The calls in flight once the awaited calls `settled` have settled and the
\* code that was waiting for them has issued `issued`.
InFlightAfter(settled, issued) == (inflight \ settled) \cup issued

----------------------------------------------------------------------------
(* fetchModelProviders and configureModelProviders (lines 225-368).  A     *)
(* provider map is the sequence of its entries in key order, each entry a   *)
(* provider with the names of its models in key order.                      *)

Undefined == "undefined"

\* A chatModelProvider / embeddingModelProvider parameter that was not given.
NotRequested == [given |-> FALSE, provider |-> "", name |-> ""]

\* Object.keys(map).
Keys(map) == [i \in 1..Len(map) |-> map[i].provider]

\* map[provider]: the model names of the provider; the provider is a key.
ModelsOf(map, provider) ==
    (CHOOSE e \in { map[i] : i \in 1..Len(map) } : e.provider = provider).models

HasProvider(map, provider) == \E i \in 1..Len(map) : map[i].provider = provider

\* array[0].
First(seq) == IF seq = <<>> THEN Undefined ELSE seq[1]

\* keys.find(provider => Object.keys(map[provider]).length > 0) || keys[0]
AvailableProvider(map) ==
    LET withModels == { i \in 1..Len(map) : map[i].models # <<>> }
    IN  IF withModels = {} THEN First(Keys(map))
        ELSE map[CHOOSE i \in withModels : \A j \in withModels : i <= j].provider

Resolved(provider, name) ==
    [threw |-> FALSE, error |-> ErrorOf(<<>>), model |-> [provider |-> provider, name |-> name]]

Failed(message) ==
    [threw |-> TRUE, error |-> ErrorOf(message), model |-> [provider |-> "", name |-> ""]]

\* Lines 255-313.
ResolveChatModel(requested, map) ==
    IF requested.given
    THEN IF HasProvider(map, requested.provider)
            /\ \E k \in 1..Len(ModelsOf(map, requested.provider)) :
                   ModelsOf(map, requested.provider)[k] = requested.name
         THEN Resolved(requested.provider, requested.name)
         ELSE LET availableProvider == AvailableProvider(map)
              IN  IF availableProvider = Undefined
                  THEN Failed(<<"Cannot convert undefined or null to object">>)
                  ELSE Resolved(availableProvider, First(ModelsOf(map, availableProvider)))
    ELSE IF Len(Keys(map)) = 0 THEN Failed(<<"No chat models available">>)
    ELSE LET availableProvider == AvailableProvider(map)
         IN  IF availableProvider = "custom_openai" /\ ModelsOf(map, availableProvider) = <<>>
             THEN Failed(<<"No chat model providers configured">>)
             ELSE Resolved(availableProvider, First(ModelsOf(map, availableProvider)))

\* Lines 316-358.
ResolveEmbeddingModel(requested, map) ==
    IF requested.given
    THEN IF HasProvider(map, requested.provider)
            /\ \E k \in 1..Len(ModelsOf(map, requested.provider)) :
                   ModelsOf(map, requested.provider)[k] = requested.name
         THEN Resolved(requested.provider, requested.name)
         ELSE LET availableProvider == First(Keys(map))
              IN  IF availableProvider = Undefined
                  THEN Failed(<<"Cannot convert undefined or null to object">>)
                  ELSE Resolved(availableProvider, First(ModelsOf(map, availableProvider)))
    ELSE IF Len(Keys(map)) = 0 THEN Failed(<<"No embedding models available">>)
    ELSE Resolved(First(Keys(map)), First(ModelsOf(map, First(Keys(map)))))

\* Lines 225-239 on the answer of the models endpoint.
fetchModelProviders(resp) ==
    IF resp.rejected THEN [threw |-> TRUE, error |-> ErrorOf(<<"fetch failed">>)]
    ELSE IF ~resp.ok
        THEN [threw |-> TRUE, error |-> ErrorOf(<<"Failed to fetch models: ", resp.status>>)]
    ELSE [threw |-> FALSE, error |-> ErrorOf(<<>>)]

\* Lines 244-368: the catch of line 364 rethrows what it caught.
configureModelProviders(chatModelProvider, embeddingModelProvider, resp) ==
    LET fetched == fetchModelProviders(resp)
        chat == ResolveChatModel(chatModelProvider, resp.chatModelProviders)
        embedding == ResolveEmbeddingModel(embeddingModelProvider, resp.embeddingModelProviders)
    IN  IF fetched.threw THEN [threw |-> TRUE, error |-> fetched.error, value |-> NoProviders]
        ELSE IF chat.threw THEN [threw |-> TRUE, error |-> chat.error, value |-> NoProviders]
        ELSE IF embedding.threw
            THEN [threw |-> TRUE, error |-> embedding.error, value |-> NoProviders]
        ELSE [threw |-> FALSE, error |-> ErrorOf(<<>>),
              value |-> [chatModel |-> chat.model, embeddingModel |-> embedding.model]]

\* scoreLeadWithGemini (lines 142-158) on the text the model answered.
scoreLeadWithGemini(text) ==
    [score |-> ParseScoreResponse(text).score, reason |-> ParseScoreResponse(text).reason]

\* extractCrmLeadFieldsWithLLM (lines 201-213) on the text the model answered.
extractCrmLeadFieldsWithLLM(text) == ParseCrmJson(text).fields

----------------------------------------------------------------------------
(* Spec: one enrichLeads call.                                             *)

EmailUpper == <<SP, "A", "@", "b", ".", "c", "o", "m", SP>>   \* " A@b.com "
EmailBad == <<"b", "a", "d", "-", "e", "m", "a", "i", "l">>   \* "bad-email"
EmailLower == <<"a", "@", "b", ".", "c", "o", "m">>           \* "a@b.com"

\* Generated lists are built from an entry without '@' and a valid entry
\* (which may repeat); the list of the example adds an entry to be trimmed.
EmailPool == {EmailBad, EmailLower}

EmailOther == <<"z", "@", "c", ".", "i", "o">>                  \* "z@c.io"

ExampleEmails == <<EmailUpper, EmailBad, EmailLower>>

\* Two leads of different companies.
TwoCompanies == <<EmailLower, EmailOther>>

EmailLists ==
    UNION { [1..n -> EmailPool] : n \in 0..MaxEmails } \cup {ExampleEmails, TwoCompanies}

\* What GET /api/models may answer: a listing with one provider and its
\* models, a listing whose provider has no model, an empty listing, a
\* non-2xx status, or no answer at all.
ModelsOk ==
    [rejected |-> FALSE, ok |-> TRUE, status |-> "200",
     chatModelProviders |-> << [provider |-> "p1", models |-> <<"m1">>] >>,
     embeddingModelProviders |-> << [provider |-> "p1", models |-> <<"e1">>] >>]
ModelsWithoutModels ==
    [rejected |-> FALSE, ok |-> TRUE, status |-> "200",
     chatModelProviders |-> << [provider |-> "p1", models |-> <<>>] >>,
     embeddingModelProviders |-> << [provider |-> "p1", models |-> <<>>] >>]
ModelsEmpty ==
    [rejected |-> FALSE, ok |-> TRUE, status |-> "200",
     chatModelProviders |-> <<>>, embeddingModelProviders |-> <<>>]
ModelsHttpError ==
    [rejected |-> FALSE, ok |-> FALSE, status |-> "500",
     chatModelProviders |-> <<>>, embeddingModelProviders |-> <<>>]
ModelsUnreachable ==
    [rejected |-> TRUE, ok |-> FALSE, status |-> "",
     chatModelProviders |-> <<>>, embeddingModelProviders |-> <<>>]

ModelsResponses ==
    {ModelsOk, ModelsWithoutModels, ModelsEmpty, ModelsHttpError, ModelsUnreachable}

\* What the scoring model and the extraction model answer when they answer.
CannedScoreText ==
    <<TotalScoreLabel, SP, "7", "3", "/90", NL, ReasonLabel, SP, "strong revenue">>
CannedExtractText ==
    <<"noise", SP, "{", CityPair, ",", CountryPair, "}", SP, "trailing">>

\* What sendMessage gives on each answer of the chat endpoint, and what the
\* two parses give on the canned texts.
SettledChats ==
    [kind \in ChatFailKinds \cup {"ok"} |-> sendMessage(ChatResponse(kind))]

SettledChat(kind) == SettledChats[kind]

CannedScoreReport == scoreLeadWithGemini(CannedScoreText)
CannedFields == extractCrmLeadFieldsWithLLM(CannedExtractText)

\* The messages of the errors the Gemini calls of lines 141 and 200 raise.
GeminiFailureMessages == { <<"quota exceeded">>, <<>> }

Init ==
    /\ emails \in EmailLists
    /\ pc = "start"
    /\ validEmails = <<>>
    /\ results = <<>>
    /\ errors = <<>>
    /\ providers = NoProviders
    /\ leadIdx = 0
    /\ qIdx = 0
    /\ chatId = 0
    /\ enrichmentResults = <<>>
    /\ chatHistory = <<>>
    /\ scoreReport = NoScoreReport
    /\ response = NoResponse
    /\ inflight = {}
    /\ calls = 0
    /\ nextId = 1
    /\ envMode \in {"ok", "fail"}
    /\ envFlips = 0
    /\ failKind \in ChatFailKinds
    /\ modelsResponse \in ModelsResponses
    /\ resolutions = 0
    /\ StreamIdle
    /\ FnIdle

\* The backends answer the call being settled in mode m.
EnvStep(m) ==
    /\ m \in {"ok", "fail"}
    /\ m = envMode \/ envFlips < MaxFlips
    /\ envMode' = m
    /\ envFlips' = envFlips + (IF m = envMode THEN 0 ELSE 1)
    /\ UNCHANGED <<failKind, modelsResponse>>

CurrentEmail == validEmails[leadIdx]
CurrentInfo == extractCompanyInfo(CurrentEmail)
CurrentQuestions ==
    generateEnrichmentQuestions(CurrentInfo.companyName, CurrentInfo.fullDomain)

\* processLeadEnrichment is entered for lead i and runs to its first await:
\* lines 510-537, then the first sendMessage of line 541.
BeginLead(settled, i, models) ==
    LET info == extractCompanyInfo(validEmails[i])
        qs == generateEnrichmentQuestions(info.companyName, info.fullDomain)
    IN  /\ leadIdx' = i
        /\ qIdx' = 1
        /\ chatId' = nextId
        /\ nextId' = nextId + 1
        /\ enrichmentResults' = <<>>
        /\ chatHistory' = FreshHistory(chatHistory)
        /\ scoreReport' = NoScoreReport
        /\ inflight' = InFlightAfter(settled,
               {ChatCall(i, 1, nextId, qs[1], FreshHistory(chatHistory), models)})
        /\ calls' = calls + 1
        /\ pc' = "chat"

\* The for loop of line 539 moves past question qIdx: the next sendMessage,
\* or after the last question the scoring call of line 569.  Reads
\* enrichmentResults' and chatHistory'.
ContinueQuestions(settled) ==
    IF qIdx < NumQuestions
    THEN /\ qIdx' = qIdx + 1
         /\ inflight' = InFlightAfter(settled,
                {ChatCall(leadIdx, qIdx + 1, chatId, CurrentQuestions[qIdx + 1],
                          chatHistory', providers)})
         /\ calls' = calls + 1
         /\ pc' = "chat"
    ELSE /\ qIdx' = qIdx
         /\ inflight' = InFlightAfter(settled, {ScoreCall(leadIdx, enrichmentResults')})
         /\ calls' = calls + 1
         /\ pc' = "score"

\* The for loop of line 649 moves past lead leadIdx: the next lead, or the
\* return of lines 678-682.  Reads results' and errors'.
ContinueLeads(settled) ==
    IF leadIdx < Len(validEmails)
    THEN /\ BeginLead(settled, leadIdx + 1, providers)
         /\ UNCHANGED response
    ELSE /\ response' = [success |-> (Len(errors') = 0), results |-> results',
                         errors |-> errors']
         /\ pc' = "done"
         /\ inflight' = InFlightAfter(settled, {})
         /\ UNCHANGED <<leadVars, calls, nextId>>

\* results.push(result) of line 661.
PushOutcomeUnlessFailed(rs, result) == IF result.hasError THEN rs ELSE Append(rs, result)

PushOutcome(rs, result) == Append(rs, result)

\* LeadReturned with a failure of the lead thrown out of enrichLeads instead
\* of being returned in the outcome: the call ends without a response.
LeadReturnedOrThrown(settled, result) ==
    IF result.hasError
    THEN /\ pc' = "threw"
         /\ inflight' = InFlightAfter(settled, {})
         /\ UNCHANGED <<results, errors, leadVars, calls, nextId, response>>
    ELSE /\ results' = PushOutcome(results, result)
         /\ errors' = PushLeadError(errors, result)
         /\ IF IndexOf(validEmails, CurrentEmail) < Len(validEmails) - 1
            THEN /\ pc' = "leadDelay"
                 /\ inflight' = InFlightAfter(settled, {})
                 /\ UNCHANGED <<leadVars, calls, nextId, response>>
            ELSE ContinueLeads(settled)

\* processLeadEnrichment returned `result` (lines 653-670).
LeadReturned(settled, result) ==
    /\ results' = PushOutcome(results, result)
    /\ errors' = PushLeadError(errors, result)
    /\ IF IndexOf(validEmails, CurrentEmail) < Len(validEmails) - 1
       THEN /\ pc' = "leadDelay"
            /\ inflight' = InFlightAfter(settled, {})
            /\ UNCHANGED <<leadVars, calls, nextId, response>>
       ELSE ContinueLeads(settled)

\* enrichLeads is called: lines 616-646, to the fetch of line 226.
Validate ==
    /\ pc = "start"
    /\ validEmails' = FilterValidEmails(emails)
    /\ IF Len(validEmails') = 0
       THEN /\ response' = [success |-> FALSE, results |-> <<>>,
                            errors |-> << <<"No valid email addresses provided">> >>]
            /\ pc' = "done"
            /\ UNCHANGED <<inflight, calls, resolutions>>
       ELSE /\ inflight' = InFlightAfter({}, {ModelsCall})
            /\ calls' = calls + 1
            /\ resolutions' = resolutions + 1
            /\ pc' = "providers"
            /\ UNCHANGED response
    /\ UNCHANGED <<emails, results, errors, providers, leadVars, nextId, envVars, smVars,
                   fnVars>>

\* configureModelProviders settles (line 643): the first lead starts, or
\* the catch of lines 683-692 returns the configuration error.
ProvidersReturn ==
    /\ pc = "providers"
    /\ ModelsCall \in inflight
    /\ LET r == configureModelProviders(NotRequested, NotRequested, modelsResponse)
       IN  IF ~r.threw
           THEN /\ providers' = r.value
                /\ BeginLead({ModelsCall}, 1, r.value)
                /\ UNCHANGED <<results, errors, response>>
           ELSE \* line 684: every error thrown here is an Error instance
                /\ response' = [success |-> FALSE, results |-> results,
                                errors |-> << <<"Configuration error: ">> \o r.error.message >>
                                           \o errors]
                /\ pc' = "done"
                /\ inflight' = InFlightAfter({ModelsCall}, {})
                /\ UNCHANGED <<providers, results, errors, leadVars, calls, nextId>>
    /\ UNCHANGED <<emails, validEmails, resolutions, envVars, smVars, fnVars>>

\* The sendMessage of line 541 settles.
ChatReturn ==
    /\ pc = "chat"
    /\ \E call \in inflight, m \in {"ok", "fail"} :
         /\ call.kind = "chat"
         /\ EnvStep(m)
         /\ LET r == SettledChat(IF m = "ok" THEN "ok" ELSE failKind)
                question == CurrentQuestions[qIdx]
            IN  IF ~r.threw
                THEN \* lines 552-559: the 2 s delay is started
                     /\ enrichmentResults' = PushResult(enrichmentResults, question, r.value)
                     /\ chatHistory' = PushHistory(chatHistory, question, r.value)
                     /\ pc' = "questionDelay"
                     /\ inflight' = InFlightAfter({call}, {})
                     /\ UNCHANGED <<qIdx, calls>>
                ELSE \* lines 560-566, then the loop goes on
                     /\ enrichmentResults' = CatchQuestionResults(enrichmentResults, question, r.error)
                     /\ chatHistory' = CatchQuestionHistory(chatHistory, question, r.error)
                     /\ ContinueQuestions({call})
    /\ UNCHANGED <<emails, validEmails, results, errors, providers, leadIdx, chatId,
                   scoreReport, response, nextId, resolutions, smVars, fnVars>>

\* The timer of line 559 fires.
QuestionDelay ==
    /\ pc = "questionDelay"
    /\ UNCHANGED <<enrichmentResults, chatHistory>>
    /\ ContinueQuestions({})
    /\ UNCHANGED <<emails, validEmails, results, errors, providers, leadIdx, chatId,
                   scoreReport, response, nextId, resolutions, envVars, smVars, fnVars>>

\* scoreLeadWithGemini settles (line 569): the extraction call of line 576
\* is made, or the catch of lines 596-606 returns the error outcome.
ScoreReturn ==
    /\ pc = "score"
    /\ \E call \in inflight, m \in {"ok", "fail"} :
         /\ call.kind = "score"
         /\ EnvStep(m)
         /\ IF m = "ok"
            THEN /\ scoreReport' = CannedScoreReport
                 /\ inflight' = InFlightAfter({call}, {ExtractCall(leadIdx, enrichmentResults)})
                 /\ calls' = calls + 1
                 /\ pc' = "extract"
                 /\ UNCHANGED <<results, errors, response, leadIdx, qIdx, chatId,
                                enrichmentResults, chatHistory, nextId>>
            ELSE \E message \in GeminiFailureMessages :
                    LeadReturned({call}, ErrorOutcome(CurrentEmail, ErrorOf(message)))
    /\ UNCHANGED <<emails, validEmails, providers, resolutions, smVars, fnVars>>

\* extractCrmLeadFieldsWithLLM settles (line 576): lines 587-595 return the
\* populated outcome, or the catch of lines 596-606 the error outcome.
ExtractReturn ==
    /\ pc = "extract"
    /\ \E call \in inflight, m \in {"ok", "fail"} :
         /\ call.kind = "extract"
         /\ EnvStep(m)
         /\ IF m = "ok"
            THEN LeadReturned({call},
                    SuccessOutcome(CurrentEmail, CurrentInfo.companyName, chatId,
                                   enrichmentResults, scoreReport,
                                   CannedFields))
            ELSE \E message \in GeminiFailureMessages :
                    LeadReturned({call}, ErrorOutcome(CurrentEmail, ErrorOf(message)))
    /\ UNCHANGED <<emails, validEmails, providers, resolutions, smVars, fnVars>>

\* The timer of line 669 fires.
LeadDelay ==
    /\ pc = "leadDelay"
    /\ UNCHANGED <<results, errors>>
    /\ ContinueLeads({})
    /\ UNCHANGED <<emails, validEmails, providers, resolutions, envVars, smVars, fnVars>>

Next ==
    \/ Validate
    \/ ProvidersReturn
    \/ ChatReturn
    \/ QuestionDelay
    \/ ScoreReturn
    \/ ExtractReturn
    \/ LeadDelay

Spec == Init /\ [][Next]_vars

----------------------------------------------------------------------------
(* SpecLive: enrichLeads when every pending call settles and every timer   *)
(* fires.  At most one call or timer is pending at a time, and each action  *)
(* of Next is the settling of the pending one, so weak fairness of Next is  *)
(* that assumption.  The email lists are the example list, a repeated       *)
(* email, and lists without a valid entry.                                  *)

LiveEmailLists ==
    { <<>>, <<EmailBad>>, <<EmailLower>>, <<EmailBad, EmailLower>>,
      <<EmailLower, EmailLower>>, ExampleEmails, TwoCompanies }

InitLive == Init /\ emails \in LiveEmailLists

SpecLive == InitLive /\ [][Next]_vars /\ WF_vars(Next)

----------------------------------------------------------------------------
(* SpecScore: the parse of scoreLeadWithGemini on one response text.       *)

ScoreAlphabet ==
    {TotalScoreLabel, RevenueScoreLabel, ReasonLabel, NL, SP, "3", "7", ".", "/90", "x"}

\* "Total Score: 73/90\nReason: strong revenue"
ExampleScoreText == CannedScoreText

\* A response that follows the rubric of the prompt (lines 124-133).
RubricScoreText ==
    <<SP, RevenueScoreLabel, SP, "7", "/20", NL,
      TotalScoreLabel, SP, "7", "3", "/90", NL,
      ReasonLabel, SP, "strong revenue", NL>>

ScoreTexts ==
    UNION { [1..n -> ScoreAlphabet] : n \in 0..MaxScoreLen }
    \cup { ExampleScoreText, RubricScoreText,
           <<TotalScoreLabel, SP, "9", "0", "/90">>,
           <<TotalScoreLabel, SP, "9", "9", "9", "/90">> }

InitScore ==
    /\ fnInput \in ScoreTexts
    /\ fnOutput = <<>>
    /\ fnState = "ready"
    /\ seedCache = {}
    /\ BatchIdle
    /\ StreamIdle

\* Lines 144-158 run on the text of line 142.
ScoreParse ==
    /\ fnState = "ready"
    /\ fnOutput' = ParseScoreResponse(fnInput)
    /\ fnState' = "done"
    /\ UNCHANGED <<fnInput, seedCache, smVars, batchVars>>

NextScore == ScoreParse

SpecScore == InitScore /\ [][NextScore]_vars

----------------------------------------------------------------------------
(* SpecSend: sendMessage on one response of the chat endpoint.             *)

\* k symbols of filler.
Pad(k) == [i \in 1..k |-> "x"]

\* Bodies of an error response: short ones, and ones around the length at
\* which line 416 cuts.
ErrorBodies ==
    { Pad(k) \o t : k \in {0, BodySlice - 2},
                    t \in UNION { [1..n -> {"a", "b"}] : n \in 0..MaxBodyTail } }

ErrorStatuses == { <<"404", "Not Found">>, <<"500", "Internal Server Error">> }

SendResponses ==
    { Response(FALSE, FALSE, st[1], st[2], body, readable, TRUE, <<>>) :
         st \in ErrorStatuses, body \in ErrorBodies, readable \in BOOLEAN }
    \cup { ChatResponse(kind) : kind \in {"ok", "errorRecord", "http", "transport"} }
    \cup { Response(FALSE, TRUE, "200", "OK", <<>>, TRUE, FALSE, <<>>) }

InitSend ==
    /\ fnInput \in SendResponses
    /\ fnOutput = <<>>
    /\ fnState = "ready"
    /\ seedCache = {}
    /\ BatchIdle
    /\ StreamIdle

\* fetch settled with the response: lines 414-465.
SendMessage ==
    /\ fnState = "ready"
    /\ fnOutput' = sendMessage(fnInput)
    /\ fnState' = "done"
    /\ UNCHANGED <<fnInput, seedCache, smVars, batchVars>>

NextSend == SendMessage

SpecSend == InitSend /\ [][NextSend]_vars

----------------------------------------------------------------------------
(* SpecExtract: the parse of extractCrmLeadFieldsWithLLM on one response.  *)

ExtractAlphabet == {"{", "}", CityPair, CountryPair, ",", SP, "noise"}

ExtractTexts ==
    UNION { [1..n -> ExtractAlphabet] : n \in 0..MaxExtractLen } \cup {CannedExtractText}

InitExtract ==
    /\ fnInput \in ExtractTexts
    /\ fnOutput = <<>>
    /\ fnState = "ready"
    /\ seedCache = {}
    /\ BatchIdle
    /\ StreamIdle

\* Lines 203-213 run on the text of line 201.
ExtractParse ==
    /\ fnState = "ready"
    /\ fnOutput' = ParseCrmJson(fnInput)
    /\ fnState' = "done"
    /\ UNCHANGED <<fnInput, seedCache, smVars, batchVars>>

NextExtract == ExtractParse

SpecExtract == InitExtract /\ [][NextExtract]_vars

----------------------------------------------------------------------------
(* SpecCompany: the company and domain processLeadEnrichment derives from  *)
(* one email, and the company of the outcome it returns.                   *)

EmailAlphabet == {"a", "b", "@", "."}

\* The emails enrichLeads lets through (line 628): those that hold an '@'.
CompanyEmails ==
    { e \in UNION { [1..n -> EmailAlphabet] : n \in 1..MaxEmailLen } : Includes(e, "@") }

InitCompany ==
    /\ fnInput \in CompanyEmails
    /\ fnOutput = <<>>
    /\ fnState = "ready"
    /\ seedCache = {}
    /\ BatchIdle
    /\ StreamIdle

\* Lines 511-527 derive company and domain; the lead then returns the
\* outcome of lines 587-595 or, after a failure, that of lines 598-605.
DeriveCompany ==
    /\ fnState = "ready"
    /\ \E failed \in BOOLEAN :
         LET info == extractCompanyInfo(fnInput)
             outcome == IF failed
                        THEN ErrorOutcome(fnInput, ErrorOf(<<"quota exceeded">>))
                        ELSE SuccessOutcome(fnInput, info.companyName, 1, <<>>,
                                            CannedScoreReport, CannedFields)
         IN  fnOutput' = [company |-> info.companyName, domain |-> info.fullDomain,
                          reported |-> outcome.company, failed |-> failed]
    /\ fnState' = "done"
    /\ UNCHANGED <<fnInput, seedCache, smVars, batchVars>>

NextCompany == DeriveCompany

SpecCompany == InitCompany /\ [][NextCompany]_vars

----------------------------------------------------------------------------
(* SpecProviders: one configureModelProviders call on one answer of the    *)
(* models endpoint.                                                        *)

ProviderNames == {"p1", "p2", "custom_openai"}

\* The provider maps of a listing: up to MaxProviders distinct providers in
\* key order, each without a model or with the model "m1".
ProviderMaps ==
    { map \in UNION { [1..n -> [provider : ProviderNames, models : {<<>>, <<"m1">>}]]
                        : n \in 0..MaxProviders } :
        \A i, j \in 1..Len(map) : map[i].provider = map[j].provider => i = j }

\* What the caller may ask for: nothing, a pair the listings may hold, or a
\* model no listing holds.
RequestedModels ==
    { NotRequested,
      [given |-> TRUE, provider |-> "p1", name |-> "m1"],
      [given |-> TRUE, provider |-> "p2", name |-> "m1"],
      [given |-> TRUE, provider |-> "p1", name |-> "m3"] }

Listings ==
    { [rejected |-> FALSE, ok |-> TRUE, status |-> "200",
       chatModelProviders |-> c, embeddingModelProviders |-> e]
        : c \in ProviderMaps, e \in ProviderMaps }
    \cup {ModelsHttpError, ModelsUnreachable}

InitProviders ==
    /\ fnInput \in [chatModelProvider : RequestedModels,
                     embeddingModelProvider : RequestedModels,
                     listing : Listings]
    /\ fnOutput = <<>>
    /\ fnState = "ready"
    /\ seedCache = {}
    /\ BatchIdle
    /\ StreamIdle

\* Lines 244-368 on the answer of line 252.
ConfigureModelProviders ==
    /\ fnState = "ready"
    /\ fnOutput' = configureModelProviders(fnInput.chatModelProvider,
                                           fnInput.embeddingModelProvider,
                                           fnInput.listing)
    /\ fnState' = "done"
    /\ UNCHANGED <<fnInput, seedCache, smVars, batchVars>>

NextProviders == ConfigureModelProviders

SpecProviders == InitProviders /\ [][NextProviders]_vars

----------------------------------------------------------------------------
(* SpecRoute: one POST request to /api/enrich-leads (route.ts).  An entry  *)
(* of body.emails is a string or a value of another type.                  *)

\* route.ts line 13.
MAX_EMAILS == 50

StringEntry(text) == [isString |-> TRUE, text |-> text]
OtherEntry == [isString |-> FALSE, text |-> <<>>]

\* "a<k>@b.c", and the same address in upper case with blanks around it.
Address(k) == <<"a", ToString(k), "@", "b", ".", "c">>
AddressPadded(k) == <<SP, "A", ToString(k), "@", "b", ".", "c", SP>>

\* A body.emails array: n distinct addresses, the first d of them repeated
\* in another spelling, then blank strings, values that are no strings, and
\* a string that is no address.
EmailsArray(n, d, blanks, others, bad) ==
    [k \in 1..n |-> StringEntry(Address(k))]
    \o [k \in 1..d |-> StringEntry(AddressPadded(k))]
    \o [k \in 1..blanks |-> StringEntry(<<SP>>)]
    \o [k \in 1..others |-> OtherEntry]
    \o [k \in 1..bad |-> StringEntry(EmailBad)]

\* The state of an optional provider field of the body.
ProviderFields == {"absent", "complete", "withoutName"}

Requests ==
    { [kind |-> "array", emails |-> EmailsArray(n, d, blanks, others, bad),
       singleMode |-> single, chatModelProvider |-> cp, embeddingModelProvider |-> ep]
        : n \in 0..MaxDistinct, d \in 0..MaxRepeats, blanks \in 0..1, others \in 0..1,
          bad \in 0..1, single \in BOOLEAN, cp \in ProviderFields,
          ep \in {"absent", "withoutName"} }
    \cup { [kind |-> k, emails |-> <<>>, singleMode |-> FALSE,
            chatModelProvider |-> "absent", embeddingModelProvider |-> "absent"]
            : k \in {"invalidJson", "null", "noEmails", "notArray"} }

\* The cap of line 67 left out.
ExceedsCapNever(n) == FALSE

\* Line 67.
ExceedsCap(n) == n > MAX_EMAILS

\* Lines 53-60: the strings of the array, trimmed and lower-cased, the empty
\* ones dropped, each kept once in the order of its first occurrence.
NormalizedEmails(entries) ==
    Dedupe(SelectSeq([i \in 1..Len(SelectSeq(entries, LAMBDA e : e.isString)) |->
                         LowerCase(Trim(SelectSeq(entries, LAMBDA e : e.isString)[i].text))],
                     LAMBDA e : e # <<>>))

\* /^[^\s@]+@[^\s@]+\.[^\s@]+$/ of line 71: no blank, one '@' with text
\* before it, and after it a '.' with text on both sides.
EmailRegexTest(e) ==
    /\ \A i \in 1..Len(e) : e[i] \notin Whitespace
    /\ Cardinality({ i \in 1..Len(e) : e[i] = "@" }) = 1
    /\ LET at == FindFrom(e, "@", 1)
       IN  /\ at > 1
           /\ \E dot \in (at + 2)..(Len(e) - 1) : e[dot] = "."

Invalid(message) == [isValid |-> FALSE, error |-> message, emails |-> <<>>]

\* validateRequest (lines 33-98).
validateRequest(body) ==
    IF body.kind = "null" THEN Invalid("Request body is required")
    ELSE IF body.kind = "noEmails" THEN Invalid("emails field is required")
    ELSE IF body.kind = "notArray" THEN Invalid("emails must be an array")
    ELSE IF Len(body.emails) = 0 THEN Invalid("At least one email is required")
    ELSE LET normalizedEmails == NormalizedEmails(body.emails)
         IN  IF Len(normalizedEmails) = 0
                THEN Invalid("No valid emails after normalization")
             ELSE IF ExceedsCap(Len(normalizedEmails))
                THEN Invalid("Too many emails")
             ELSE IF \E i \in 1..Len(normalizedEmails) : ~EmailRegexTest(normalizedEmails[i])
                THEN Invalid("Invalid email format(s)")
             ELSE IF body.chatModelProvider = "withoutName"
                THEN Invalid("chatModelProvider must have both name and provider fields")
             ELSE IF body.embeddingModelProvider = "withoutName"
                THEN Invalid("embeddingModelProvider must have both name and provider fields")
             ELSE [isValid |-> TRUE, error |-> "", emails |-> normalizedEmails]

NotInvoked(status) ==
    [status |-> status, invoked |-> "none", emails |-> <<>>, success |-> FALSE]

\* The status of line 211 without the test of success.
ResponseStatusAlways200(success) == "200"

\* Line 211.
ResponseStatus(success) == IF success THEN "200" ELSE "207"

InitRoute ==
    /\ fnInput \in Requests
    /\ fnOutput = NotInvoked("")
    /\ fnState = "ready"
    /\ seedCache = {}
    /\ BatchIdle
    /\ StreamIdle

\* POST up to its await (lines 101-172): a body that is no JSON and a body
\* that fails validation are answered with 400; otherwise enrichSingleLead
\* or enrichLeads is invoked with the validated emails.
PostReceive ==
    /\ fnState = "ready"
    /\ IF fnInput.kind = "invalidJson"
       THEN fnOutput' = NotInvoked("400") /\ fnState' = "responded"
       ELSE LET validation == validateRequest(fnInput)
                emailsParam == [i \in 1..Len(validation.emails) |-> Trim(validation.emails[i])]
            IN  IF ~validation.isValid
                THEN fnOutput' = NotInvoked("400") /\ fnState' = "responded"
                ELSE /\ fnState' = "invoked"
                     /\ IF fnInput.singleMode /\ Len(validation.emails) = 1
                        THEN fnOutput' = [status |-> "", invoked |-> "enrichSingleLead",
                                          emails |-> <<validation.emails[1]>>,
                                          success |-> FALSE]
                        ELSE fnOutput' = [status |-> "", invoked |-> "enrichLeads",
                                          emails |-> emailsParam, success |-> FALSE]
    /\ UNCHANGED <<fnInput, seedCache, smVars, batchVars>>

\* The enrichment returns and POST answers (lines 174-214): 200 for a batch
\* that reports success, 207 otherwise.
PostRespond ==
    /\ fnState = "invoked"
    /\ \E success \in BOOLEAN :
         fnOutput' = [fnOutput EXCEPT !.status = ResponseStatus(success),
                                      !.success = success]
    /\ fnState' = "responded"
    /\ UNCHANGED <<fnInput, seedCache, smVars, batchVars>>

NextRoute == PostReceive \/ PostRespond

SpecRoute == InitRoute /\ [][NextRoute]_vars

----------------------------------------------------------------------------
(* SpecSingle: one call of an entry point of the enrichment, enrichLeads   *)
(* with a one-element list or enrichSingleLead, up to the values            *)
(* enrichLeads works on (lines 613-628, 698-706).  An object is a function  *)
(* from its keys to their values; "undefined" is the value undefined.       *)

OptionKeys ==
    {"chatModelProvider", "embeddingModelProvider", "focusMode", "optimizationMode",
     "systemInstructions"}

\* The options argument: left out, or an object with some of the keys.
OptionObjects ==
    UNION { [keys -> {"undefined", "given"}] : keys \in SUBSET OptionKeys }

OptionArguments ==
    {[defined |-> FALSE, fields |-> <<>>]}
        \cup { [defined |-> TRUE,
                fields |-> [k \in DOMAIN o |-> IF o[k] = "given" THEN "given " \o k
                                                                ELSE "undefined"]] :
               o \in OptionObjects }

SingleEmails == {EmailUpper, EmailBad, EmailLower}

\* { ...a, ...b }: the keys of both, b's value where both have the key;
\* spreading undefined adds nothing.
Spread(a, b) == IF b.defined THEN b.fields @@ a ELSE a

\* o[key], undefined for a key the object lacks.
Get(o, key) == IF key \in DOMAIN o THEN o[key] ELSE "undefined"

\* A destructuring default: it stands in for undefined.
OrDefault(value, default) == IF value = "undefined" THEN default ELSE value

\* The object handed to enrichLeads without the caller's options.
enrichSingleLeadWithoutOptions(email, options) == "emails" :> <<email>>

\* Lines 698-706: the object enrichSingleLead hands to enrichLeads.
enrichSingleLead(email, options) == Spread("emails" :> <<email>>, options)

\* The object literal of a caller of enrichLeads with the list [email].
DirectParams(email, options) ==
    [k \in {"emails"} \cup (IF options.defined THEN DOMAIN options.fields ELSE {}) |->
        IF k = "emails" THEN <<email>> ELSE options.fields[k]]

\* Lines 616-628: what enrichLeads reads of its params, and validEmails.
ReadParams(params) ==
    [emails |-> params["emails"],
     chatModelProvider |-> Get(params, "chatModelProvider"),
     embeddingModelProvider |-> Get(params, "embeddingModelProvider"),
     focusMode |-> OrDefault(Get(params, "focusMode"), "webSearch"),
     optimizationMode |-> OrDefault(Get(params, "optimizationMode"), "speed"),
     systemInstructions |-> Get(params, "systemInstructions"),
     validEmails |-> FilterValidEmails(params["emails"])]

NoParams == "emails" :> <<>>

InitSingle ==
    /\ fnInput \in [entry : {"enrichLeads", "enrichSingleLead"},
                    email : SingleEmails,
                    options : OptionArguments]
    /\ fnOutput = [params |-> NoParams, values |-> ReadParams(NoParams)]
    /\ fnState = "ready"
    /\ seedCache = {}
    /\ BatchIdle
    /\ StreamIdle

\* The entry point is called: enrichLeads receives its params.
EnterEnrichment ==
    /\ fnState = "ready"
    /\ fnOutput' = [fnOutput EXCEPT !.params =
                        IF fnInput.entry = "enrichSingleLead"
                        THEN enrichSingleLead(fnInput.email, fnInput.options)
                        ELSE DirectParams(fnInput.email, fnInput.options)]
    /\ fnState' = "called"
    /\ UNCHANGED <<fnInput, seedCache, smVars, batchVars>>

\* enrichLeads destructures its params and filters the emails.
EnrichLeadsBegin ==
    /\ fnState = "called"
    /\ fnOutput' = [fnOutput EXCEPT !.values = ReadParams(fnOutput.params)]
    /\ fnState' = "begun"
    /\ UNCHANGED <<fnInput, seedCache, smVars, batchVars>>

NextSingle == EnterEnrichment \/ EnrichLeadsBegin

SpecSingle == InitSingle /\ [][NextSingle]_vars

----------------------------------------------------------------------------
(* Properties of sendMessage, checked under SpecStream.                    *)

Delivered == SubSeq(stream, 1, pos)
LinesOf(s) == Split(s, NL)
IsBlank(l) == Trim(l) = <<>>
IsRecordOf(l, type) == JsonParse(l).ok /\ JsonParse(l).type = type

\* A line the loop passes over: blank, or a record that is neither an
\* error nor a messageEnd.
Passable(l) == IsBlank(l) \/ (JsonParse(l).ok /\ JsonParse(l).type \notin {"error", "messageEnd"})

\* The data of the message records among the lines ls, in order.
RECURSIVE Fragments(_)
Fragments(ls) ==
    IF ls = <<>> THEN <<>>
    ELSE (IF IsRecordOf(Head(ls), "message") THEN JsonParse(Head(ls)).data ELSE <<>>)
         \o Fragments(Tail(ls))

\* s is message records, then a messageEnd record, each line ended by a newline.
MessagesThenEnd(s) ==
    LET ls == LinesOf(s)
        n == Len(ls)
    IN  /\ n >= 2
        /\ ls[n] = <<>>
        /\ IsRecordOf(ls[n - 1], "messageEnd")
        /\ \A i \in 1..(n - 2) : IsRecordOf(ls[i], "message")

\* C2: for a stream of message records followed by messageEnd, the answer
\* returned is the fragments concatenated, each once and in order, however
\* the bytes were split into chunks; the Hel/lo stream gives Hello.
C2_EveryChunkingSameAnswer ==
    (smState = "returned" /\ MessagesThenEnd(stream))
        => /\ smResult = Trim(Fragments(LinesOf(stream)))
           /\ (stream = HelloStream => smResult = <<"H", "e", "l", "l", "o">>)

\* C3: once the loop has thrown on an error record (the catch holds its
\* payload), the call has failed with that payload and is not reading on.
C3_ErrorRecordFailsCall ==
    (smCaught # <<>> /\ smCaught # <<"SyntaxError">>)
        => (smState = "threw" /\ smResult = smCaught)

\* C6: a stream that ends without a messageEnd having been acted on makes
\* the call return the trimmed text accumulated so far; an unparsed buffer is
\* never turned into a failure.
C6_PartialAnswerAtStreamEnd ==
    /\ smState # "threw"
    /\ smExit = "done" => (smState = "returned" /\ smResult = Trim(receivedMessage))
    /\ (smState = "reading" /\ pos = Len(stream)) => ENABLED SmDone

\* C6 witness: the stream ended with an unparsed buffer left, and the text
\* returned is the accumulated text without its surrounding blanks.
C6_Witness ==
    /\ smExit = "done"
    /\ partialChunk # <<>>
    /\ smResult # <<>>
    /\ smResult # receivedMessage

\* Some line of s is a messageEnd record.
MessageEndReceived(s) == \E i \in 1..Len(LinesOf(s)) : IsRecordOf(LinesOf(s)[i], "messageEnd")

\* The first messageEnd record of s has only passable lines before it.
MessageEndReached(s) ==
    \E i \in 1..Len(LinesOf(s)) :
        /\ IsRecordOf(LinesOf(s)[i], "messageEnd")
        /\ \A j \in 1..(i - 1) : Passable(LinesOf(s)[j])

\* The lines of s before its first messageEnd record.
BeforeEnd(s) ==
    LET ls == LinesOf(s)
        i == CHOOSE k \in 1..Len(ls) :
                /\ IsRecordOf(ls[k], "messageEnd")
                /\ \A j \in 1..(k - 1) : ~IsRecordOf(ls[j], "messageEnd")
    IN  SubSeq(ls, 1, i - 1)

Symbols(s) == { s[i] : i \in 1..Len(s) }

\* C7 as stated: from the moment a complete messageEnd record has been
\* received the call has returned on it.
C7_ReturnsOnceMessageEndReceived ==
    MessageEndReceived(Delivered) => (smState = "returned" /\ smExit = "messageEnd")

\* C7, amended: the call returns on a messageEnd record exactly when every
\* line received before it is blank or a parsed record other than error; it
\* then returns at once (no read follows) the trimmed accumulated answer,
\* which holds nothing of the records after the messageEnd.
C7_ReturnsOnceMessageEndReached ==
    /\ MessageEndReached(Delivered)
         => /\ smState = "returned"
            /\ smExit = "messageEnd"
            /\ smResult = Trim(receivedMessage)
            /\ Symbols(smResult) \subseteq Symbols(Fragments(BeforeEnd(Delivered)))
    /\ smExit = "messageEnd" => MessageEndReached(Delivered)

\* C7 witness: the call returned on the messageEnd of the long stream, whose
\* messageEnd is followed by another message record in the same chunk.
C7_Witness ==
    /\ stream = MixedStream
    /\ smExit = "messageEnd"
    /\ pos = Len(stream)
    /\ smResult = <<"a", SP, "b">>

\* Line k of s is complete (a newline follows it), is not blank and is not
\* valid JSON, and the call has not returned on a messageEnd before it.
BadLineAt(s, k) ==
    LET ls == LinesOf(s)
    IN  /\ k < Len(ls)
        /\ ~IsBlank(ls[k])
        /\ ~JsonParse(ls[k]).ok
        /\ \A j \in 1..(k - 1) :
              ~(IsRecordOf(ls[j], "messageEnd") /\ \A i \in 1..(j - 1) : Passable(ls[i]))

BadLineBuffered(s) == \E k \in 1..Len(LinesOf(s)) : BadLineAt(s, k)

\* The lines at the front of s that the loop passes over.
RECURSIVE PassedLines(_)
PassedLines(ls) ==
    IF ls = <<>> \/ ~Passable(Head(ls)) THEN <<>>
    ELSE <<Head(ls)>> \o PassedLines(Tail(ls))

\* C31: once a complete line that is not valid JSON has been received, no
\* step makes the call fail or return on a messageEnd record; a read adds
\* to the answer only what the records before the first line that stops
\* the loop hold, and the call returns only when the stream has ended.
C31_MalformedLineBlocksLaterRecords ==
    [][ BadLineBuffered(Delivered')
          => /\ smState' # "threw"
             /\ smExit' # "messageEnd"
             /\ smState' = "returned" => (smExit' = "done" /\ pos' = Len(stream))
             /\ pos' > pos
                  => receivedMessage'
                       = receivedMessage \o Fragments(PassedLines(LinesOf(partialChunk')))
             /\ pos' = pos => receivedMessage' = receivedMessage ]_vars

\* C31 witness: a line that is not JSON came in a first chunk, a messageEnd
\* record in a later one, and the call returned at the end of the stream.
C31_Witness ==
    /\ stream = <<"?", NL>> \o Record("messageEnd", <<>>) \o <<NL>>
    /\ reads >= 2
    /\ smState = "returned"
    /\ smExit = "done"
    /\ partialChunk = stream

\* A line that is blank or a record of a type other than error, message
\* and messageEnd.
Harmless(l) ==
    IsBlank(l) \/ (JsonParse(l).ok /\ JsonParse(l).type \notin {"error", "message", "messageEnd"})

\* The pieces ls of a body (the last one has no newline after it) put
\* together again without the harmless ones.
RECURSIVE WithoutHarmless(_)
WithoutHarmless(ls) ==
    IF ls = <<>> THEN <<>>
    ELSE IF Harmless(Head(ls)) THEN WithoutHarmless(Tail(ls))
    ELSE Head(ls) \o (IF Len(ls) > 1 THEN <<NL>> ELSE <<>>) \o WithoutHarmless(Tail(ls))

\* The answers sendMessage can return on the body `rest`, over all the ways
\* the body can arrive in chunks, from the loop state (partial, received).
RECURSIVE AnswersFrom(_, _, _)
AnswersFrom(rest, partial, received) ==
    IF rest = <<>> THEN {AtStreamEnd(received).result}
    ELSE UNION { LET it == LoopIteration(partial, received, SubSeq(rest, 1, n))
                 IN  IF it.state = "returned" THEN {it.result}
                     ELSE AnswersFrom(SubSeq(rest, n + 1, Len(rest)),
                                      it.partialChunk, it.receivedMessage)
                 : n \in 1..Len(rest) }

\* C34: the answer sendMessage returns on a body of pool lines is an answer
\* it returns on the same body with the blank lines and the records of
\* other types taken out.
C34_HarmlessLinesChangeNothing ==
    (smState = "returned" /\ \E ls \in LineSeqs, c \in 0..MaxCut : stream = CutEnd(JoinLines(ls), c))
        => smResult \in AnswersFrom(WithoutHarmless(LinesOf(stream)), <<>>, <<>>)

----------------------------------------------------------------------------
(* Properties of the session and of the batch, checked under Spec.         *)

IsPlaceholder(answer) == Len(answer) >= 2 /\ answer[1] = "Error: "

\* er holds one entry per planner question, in planner order.
OnePerQuestion(er, qs) ==
    /\ Len(er) = NumQuestions
    /\ \A k \in 1..NumQuestions : er[k].question = qs[k]

QuestionsOf(email) ==
    generateEnrichmentQuestions(extractCompanyInfo(email).companyName,
                                extractCompanyInfo(email).fullDomain)

\* C1: when the question loop of a lead has ended, the result list holds
\* exactly one entry per planner question, in planner order (11 entries),
\* whatever failed; the scoring and extraction calls and the lead's returned
\* outcome carry that list.
C1_OneResultPerQuestion ==
    /\ pc = "chat" => Len(enrichmentResults) = qIdx - 1
    /\ pc = "questionDelay" => Len(enrichmentResults) = qIdx
    /\ pc \in {"score", "extract"} => OnePerQuestion(enrichmentResults, CurrentQuestions)
    /\ \A call \in inflight :
         call.kind \in {"score", "extract"}
            => OnePerQuestion(call.evidence, QuestionsOf(validEmails[call.lead]))
    /\ \A i \in 1..Len(results) :
         ~results[i].hasError
            => OnePerQuestion(results[i].enrichmentData, QuestionsOf(results[i].email))

\* C1 witness: the loop of a lead has ended with every question failed.
C1_Witness ==
    /\ pc = "score"
    /\ Len(enrichmentResults) = NumQuestions
    /\ \A k \in 1..NumQuestions : IsPlaceholder(enrichmentResults[k].answer)

\* C4: a step in which the chat call of a question fails (the fetch is
\* rejected, the status is not 2xx, or the backend streams an error record)
\* records for that question the placeholder "Error: " + description and
\* leaves the session running on the same lead.
C4_FailedQuestionGetsPlaceholder ==
    [][ (pc = "chat" /\ envMode' = "fail")
          => /\ Len(enrichmentResults') = Len(enrichmentResults) + 1
             /\ enrichmentResults'[Len(enrichmentResults')].question = CurrentQuestions[qIdx]
             /\ IsPlaceholder(enrichmentResults'[Len(enrichmentResults')].answer)
             /\ leadIdx' = leadIdx
             /\ pc' \in {"chat", "questionDelay", "score"} ]_vars

\* C5: the request for question k carries a history of exactly 2*(k-1)
\* entries: every earlier question, each followed by its answer or
\* placeholder, in order.
C5_HistoryTwoPerQuestion ==
    \A call \in inflight :
        call.kind = "chat"
           => /\ Len(call.history) = 2 * (call.q - 1)
              /\ \A j \in 1..(call.q - 1) :
                    /\ call.history[2 * j - 1] = <<"human", enrichmentResults[j].question>>
                    /\ call.history[2 * j] = <<"assistant", enrichmentResults[j].answer>>

\* C8: at most one outbound call is in flight; a chat request for question
\* k of lead i is in flight only when the k-1 earlier questions of lead i
\* have been recorded and the i-1 earlier leads have been returned (so their
\* sessions, scoring and extraction are over); scoring and extraction are in
\* flight only after all questions of the lead, extraction only after scoring.
C8_OneCallInFlight ==
    /\ Cardinality(inflight) <= 1
    /\ \A call \in inflight :
         /\ call.kind = "models" => (pc = "providers" /\ calls = 1)
         /\ call.kind # "models" => (call.lead = leadIdx /\ Len(results) = call.lead - 1)
         /\ call.kind = "chat"
              => (pc = "chat" /\ call.q = qIdx /\ Len(enrichmentResults) = call.q - 1)
         /\ call.kind = "score"
              => (pc = "score" /\ Len(enrichmentResults) = NumQuestions /\ scoreReport = NoScoreReport)
         /\ call.kind = "extract"
              => (pc = "extract" /\ Len(enrichmentResults) = NumQuestions /\ scoreReport # NoScoreReport)
    /\ pc \in {"start", "questionDelay", "leadDelay", "done"} => inflight = {}

\* C8 witness: the second question of the second lead is in flight, alone.
C8_Witness ==
    /\ Cardinality(inflight) = 1
    /\ \E call \in inflight : call.kind = "chat" /\ call.lead = 2 /\ call.q = 2
    /\ Len(results) = 1

\* The normalization C9 ascribes to enrichLeads.
TrimLowerFilterDedupe(es) ==
    Dedupe(SelectSeq([i \in 1..Len(es) |-> LowerCase(Trim(es[i]))],
                     LAMBDA e : Includes(e, "@")))

\* C9: the leads enrichLeads works on are the emails trimmed, lowercased,
\* without the entries that lack '@' and without duplicates; the list
\* [" A@b.com ", "bad-email", "a@b.com"] gives the one lead "a@b.com" and
\* one outcome.
C9_TrimLowerFilterDedupe ==
    /\ pc # "start" => validEmails = TrimLowerFilterDedupe(emails)
    /\ (pc = "done" /\ emails = ExampleEmails /\ providers # NoProviders)
          => (validEmails = <<EmailLower>> /\ Len(response.results) = 1)

NoValidEntry(es) == \A i \in 1..Len(es) : ~Includes(Trim(es[i]), "@")

\* C10: for an email list that is empty or has no entry with '@', the call
\* returns success=false, no results and a non-empty errors list, and no
\* outbound call is ever issued.
C10_NoValidEmailNoCall ==
    NoValidEntry(emails)
        => /\ calls = 0
           /\ inflight = {}
           /\ pc \in {"start", "done"}
           /\ pc = "done" => /\ response.success = FALSE
                             /\ response.results = <<>>
                             /\ Len(response.errors) > 0

\* C10 witness: a list of two entries without '@' has been answered.
C10_Witness ==
    /\ pc = "done"
    /\ Len(emails) = 2
    /\ NoValidEntry(emails)
    /\ response.success = FALSE

\* The batch went through the loop of line 649 and returned from line 678.
LoopReturned == pc = "done" /\ resolutions = 1 /\ providers # NoProviders

\* C11: in the outcome the loop of enrichLeads returns, success is true if
\* and only if no outcome in results carries the error field, whatever the
\* failure value was, the empty description included.
C11_SuccessIffNoLeadFailed ==
    LoopReturned
        => (response.success
              <=> \A i \in 1..Len(response.results) : ~response.results[i].hasError)

\* C12: a step in which the scoring call or the extraction call of a lead
\* raises returns that lead's outcome with the error field set, adds the
\* matching "Failed <email>: <error>" entry to the errors list, and goes on
\* to the next email when one is left.
C12_FailedLeadRecordedBatchContinues ==
    [][ (pc \in {"score", "extract"} /\ envMode' = "fail")
          => /\ Len(results') = Len(results) + 1
             /\ results'[Len(results')].hasError
             /\ errors' = Append(errors, <<"Failed ">> \o CurrentEmail \o <<": ">>
                                         \o results'[Len(results')].error)
             /\ (leadIdx < Len(validEmails) => pc' \in {"leadDelay", "chat"}) ]_vars

\* A provider map that lists a provider with a model.
Usable(map) == \E i \in 1..Len(map) : map[i].models # <<>>

\* The models endpoint is unreachable, answers non-2xx, or lists no usable
\* chat or embedding provider.
ResolutionFails(resp) ==
    \/ resp.rejected
    \/ ~resp.ok
    \/ ~Usable(resp.chatModelProviders)
    \/ ~Usable(resp.embeddingModelProviders)

\* C13: when provider resolution fails, the call returns success=false, no
\* results and an errors list that starts with a "Configuration error:"
\* entry, and the models request is the only request ever issued.
C13_ResolutionFailureAbortsBatch ==
    (ResolutionFails(modelsResponse) /\ ~NoValidEntry(emails) /\ pc \notin {"start", "providers"})
        => /\ pc = "done"
           /\ response.success = FALSE
           /\ response.results = <<>>
           /\ response.errors # <<>>
           /\ Head(response.errors)[1] = "Configuration error: "
           /\ calls = 1

\* C14: configureModelProviders is called once, before any chat request;
\* the pair it resolved from the listing never changes, and every chat
\* request of every lead carries it.
C14_ResolvedOnceAndCarried ==
    /\ resolutions <= 1
    /\ pc \in {"start", "providers"} => (calls = resolutions /\ providers = NoProviders)
    /\ calls > 1 => resolutions = 1
    /\ providers # NoProviders
          => providers = configureModelProviders(NotRequested, NotRequested, modelsResponse).value
    /\ \A call \in inflight :
         call.kind = "chat"
            => /\ resolutions = 1
               /\ providers # NoProviders
               /\ call.chatModel = providers.chatModel
               /\ call.embeddingModel = providers.embeddingModel

\* C14 witness: a chat request of the second lead is in flight and carries
\* the pair resolved from the listing before the first lead.
C14_Witness ==
    /\ modelsResponse = ModelsOk
    /\ resolutions = 1
    /\ \E call \in inflight :
         /\ call.kind = "chat"
         /\ call.lead = 2
         /\ call.q > 1
         /\ call.chatModel = [provider |-> "p1", name |-> "m1"]
         /\ call.embeddingModel = [provider |-> "p1", name |-> "e1"]

\* C18: one session identifier is minted per lead (identifiers are minted
\* in increasing order, so a new one was never used before); every chat
\* request in flight carries the identifier of the lead being processed;
\* and the outcome returned for a lead, populated or marked with an error,
\* carries that lead's identifier.
C18_OneSessionIdPerLead ==
    [][ /\ \A call \in inflight' : call.kind = "chat" => call.chatId = chatId'
        /\ leadIdx' = leadIdx => chatId' = chatId
        /\ leadIdx' # leadIdx => chatId' > chatId
        /\ Len(results') > Len(results) => results'[Len(results')].chatId = chatId ]_vars

\* C19: the request for a question after the first is issued only by the
\* step that ends the pacing delay started after the question before it,
\* whether that question succeeded or failed.
C19_DelayBetweenQuestions ==
    [][ (\E call \in inflight' \ inflight : call.kind = "chat" /\ call.q > 1)
          => pc = "questionDelay" ]_vars

\* C20: a lead-pacing delay starts after a lead only when a further lead
\* remains, and a lead after the first starts only at the end of such a
\* delay, also when validEmails holds the same email more than once.
C20_DelayIffLeadRemains ==
    [][ /\ (pc' = "leadDelay" /\ pc # "leadDelay") => Len(results') < Len(validEmails)
        /\ (leadIdx' > leadIdx /\ leadIdx >= 1) => pc = "leadDelay" ]_vars

----------------------------------------------------------------------------
(* Properties of the score parse, checked under SpecScore.                 *)

Occurrences(text, c) == { i \in 1..Len(text) : text[i] = c }

\* The text holds none of the labels of the rubric.
NoRubricOutput(text) ==
    \A i \in 1..Len(text) : text[i] \notin {TotalScoreLabel, RevenueScoreLabel, ReasonLabel}

\* The text holds the label "Total Score:" once, and after it (blanks
\* allowed in between) the digits text[a..b] followed by "/90".
TotalOver90(text, a, b) ==
    /\ Cardinality(Occurrences(text, TotalScoreLabel)) = 1
    /\ a <= b
    /\ b < Len(text)
    /\ \A k \in a..b : text[k] \in Digits
    /\ text[b + 1] = "/90"
    /\ \E i \in 1..(a - 1) :
         /\ text[i] = TotalScoreLabel
         /\ \A k \in (i + 1)..(a - 1) : text[k] \in Whitespace

\* C15: the score parse raises for no text; a text without rubric output
\* gives score 0 and reason "N/A"; a text with "Total Score: <n>/90" gives
\* the score n; "Total Score: 73/90\nReason: strong revenue" gives 73.
C15_ScoreParse ==
    fnState = "done"
        => /\ ~fnOutput.raised
           /\ NoRubricOutput(fnInput)
                => (fnOutput.score = ZeroScore /\ fnOutput.reason = <<"N/A">>)
           /\ \A a, b \in 1..Len(fnInput) :
                TotalOver90(fnInput, a, b)
                   => fnOutput.score = [int |-> DigitsValue(SubSeq(fnInput, a, b)), frac |-> <<>>]
           /\ fnInput = ExampleScoreText => fnOutput.score = [int |-> 73, frac |-> <<>>]

\* C15 witness: the example text has been parsed to 73.
C15_Witness ==
    /\ fnState = "done"
    /\ fnInput = ExampleScoreText
    /\ fnOutput.score.int = 73
    /\ ~fnOutput.raised

\* The number of the line position i of the text lies on.
LineOf(text, i) == Cardinality({ k \in 1..(i - 1) : text[k] = NL })

\* A "Reason:" section lies after a rubric block: on a later line than a
\* line that holds "Revenue Score:".
ReasonAfterRubric(text) ==
    \E i \in Occurrences(text, RevenueScoreLabel), j \in Occurrences(text, ReasonLabel) :
        LineOf(text, j) > LineOf(text, i)

InRange0To90(n) ==
    /\ n.int >= 0
    /\ n.int < 90 \/ (n.int = 90 /\ \A k \in 1..Len(n.frac) : n.frac[k] = "0")

\* C16: the score of the report lies between 0 and 90 inclusive, whatever
\* the response text was.
C16_ScoreWithin0And90 ==
    fnState = "done" => InRange0To90(fnOutput.score)

----------------------------------------------------------------------------
(* Properties of the extraction parse, checked under SpecExtract.          *)

\* The first "{...}" substring, shortest: from the leftmost "{" that has a
\* "}" after it to the nearest such "}".  Empty when there is none.
FirstBraced(text) ==
    LET pairs == { ij \in (1..Len(text)) \X (1..Len(text)) :
                     /\ ij[1] < ij[2]
                     /\ text[ij[1]] = "{"
                     /\ text[ij[2]] = "}" }
    IN  IF pairs = {} THEN <<>>
        ELSE LET i == CHOOSE i \in { ij[1] : ij \in pairs } :
                          \A ij \in pairs : i <= ij[1]
                 j == CHOOSE j \in { ij[2] : ij \in pairs } :
                          /\ j > i
                          /\ \A ij \in pairs : ij[2] > i => j <= ij[2]
             IN  SubSeq(text, i, j)

\* The tokens are a JSON object of the alphabet: "{", pairs separated by
\* commas, "}".
IsObjectText(tokens) ==
    /\ Len(tokens) >= 2
    /\ tokens[1] = "{"
    /\ tokens[Len(tokens)] = "}"
    /\ Len(tokens) = 2 \/ Len(tokens) % 2 = 1
    /\ \A k \in 2..(Len(tokens) - 1) :
         IF k % 2 = 0 THEN tokens[k] \in JsonPairs ELSE tokens[k] = ","

\* The mapping C17 ascribes to the parse.
ExpectedFields(text) ==
    LET tokens == SelectSeq(FirstBraced(text), LAMBDA c : c \notin Whitespace)
    IN  IF IsObjectText(tokens)
        THEN { tokens[k] : k \in { n \in 2..(Len(tokens) - 1) : n % 2 = 0 } }
        ELSE {}

\* C17: the extraction parse raises for no text; it returns the empty
\* mapping when the text has no "{...}" substring or when the first,
\* shortest one is not valid JSON, and the object of that substring
\* otherwise; the example text gives {City: "Austin", Country: null}.
C17_ExtractParse ==
    fnState = "done"
        => /\ ~fnOutput.raised
           /\ fnOutput.fields = ExpectedFields(fnInput)
           /\ FirstBraced(fnInput) = <<>> => fnOutput.fields = {}
           /\ fnInput = CannedExtractText => fnOutput.fields = {CityPair, CountryPair}

\* C17 witness: the example text has been parsed to its two fields.
C17_Witness ==
    /\ fnState = "done"
    /\ fnInput = CannedExtractText
    /\ fnOutput.fields = {CityPair, CountryPair}
    /\ ~fnOutput.raised

----------------------------------------------------------------------------
(* Properties of sendMessage on one response, checked under SpecSend.      *)

\* The symbols of the message after the " | body: " marker; none without it.
BodySnippet(message) ==
    LET at == { i \in 1..Len(message) : message[i] = " | body: " }
    IN  IF at = {} THEN <<>>
        ELSE SubSeq(message, (CHOOSE i \in at : TRUE) + 1, Len(message))

IsPrefix(p, t) == Len(p) <= Len(t) /\ SubSeq(t, 1, Len(p)) = p

\* C21: on a non-2xx answer sendMessage throws at once: the message holds
\* the status code and, of the body, its first 200 characters at most
\* (all of a shorter body, nothing of a body that cannot be read); the
\* reader of the stream is never opened and no answer is returned.
C21_Non2xxFailsWithStatusAndSnippet ==
    (fnState = "done" /\ ~fnInput.rejected /\ ~fnInput.ok)
        => /\ fnOutput.threw
           /\ ~fnOutput.readerOpened
           /\ fnOutput.value = <<>>
           /\ \E i \in 1..Len(fnOutput.error.message) : fnOutput.error.message[i] = fnInput.status
           /\ IsPrefix(BodySnippet(fnOutput.error.message), fnInput.text)
           /\ Len(BodySnippet(fnOutput.error.message)) <= 200
           /\ fnInput.textReadable
                => (\/ BodySnippet(fnOutput.error.message) = fnInput.text
                    \/ Len(BodySnippet(fnOutput.error.message)) = 200)

\* C21 witness: a 500 answer with a body of more than 200 characters has
\* been turned into an error that carries exactly 200 of them.
C21_Witness ==
    /\ fnState = "done"
    /\ fnInput.status = "500"
    /\ fnInput.textReadable
    /\ Len(fnInput.text) > 200
    /\ fnOutput.threw
    /\ Len(BodySnippet(fnOutput.error.message)) = 200

----------------------------------------------------------------------------
(* Termination of enrichLeads, checked under SpecLive.                     *)

\* C22: when every outbound call settles and every timer fires, enrichLeads
\* eventually returns its outcome, whichever questions, scoring calls and
\* extraction calls fail; no failure ends the call without an outcome.
C22_EnrichLeadsReturns == <>(pc = "done")

\* C22 witness: the call has returned after the first lead failed in
\* scoring and a question of the second lead failed.
C22_Witness ==
    /\ pc = "done"
    /\ Len(response.results) = 2
    /\ response.results[1].hasError
    /\ ~response.results[2].hasError
    /\ \E k \in 1..NumQuestions :
         LET answer == response.results[2].enrichmentData[k].answer
         IN  Len(answer) >= 1 /\ answer[1] = "Error: "

----------------------------------------------------------------------------
(* Further properties of the batch, checked under Spec.                    *)

\* C23: results holds one outcome per valid email processed so far, in the
\* order of the valid emails, failed leads included; the outcome the loop
\* returns holds exactly one per valid email.
C23_OneOutcomePerValidEmail ==
    /\ Len(results) <= Len(validEmails)
    /\ \A i \in 1..Len(results) : results[i].email = validEmails[i]
    /\ pc \in {"chat", "questionDelay", "score", "extract"} => Len(results) = leadIdx - 1
    /\ pc = "leadDelay" => Len(results) = leadIdx
    /\ LoopReturned
          => /\ response.results = results
             /\ Len(response.results) = Len(validEmails)

\* C23 witness: a batch of two valid emails has returned two outcomes, the
\* first of a lead that went through, the second of a lead that failed.
C23_Witness ==
    /\ LoopReturned
    /\ Len(validEmails) = 2
    /\ Len(response.results) = 2
    /\ ~response.results[1].hasError
    /\ response.results[2].hasError
    /\ response.results[2].email = validEmails[2]

\* C24: the first chat request of a lead carries an empty history, and a
\* chat request carries the question of its own lead and, as history, only
\* questions and answers recorded for its own lead.
C24_NoStateSharedAcrossLeads ==
    \A call \in inflight :
        call.kind = "chat"
           => /\ call.q = 1 => call.history = <<>>
              /\ call.lead = leadIdx
              /\ call.question = QuestionsOf(validEmails[call.lead])[call.q]
              /\ Len(enrichmentResults) = call.q - 1
              /\ \A k \in 1..Len(enrichmentResults) :
                    enrichmentResults[k].question = QuestionsOf(validEmails[call.lead])[k]
              /\ Len(call.history) <= 2 * (call.q - 1)
              /\ \A j \in 1..Len(call.history) :
                    \E k \in 1..Len(enrichmentResults) :
                        \/ call.history[j] = <<"human", enrichmentResults[k].question>>
                        \/ call.history[j] = <<"assistant", enrichmentResults[k].answer>>

\* C24 witness: the second question of the second lead, a lead of another
\* company than the first, is in flight with the first question of that
\* lead as its history.
C24_Witness ==
    /\ emails = TwoCompanies
    /\ \E call \in inflight :
         /\ call.kind = "chat"
         /\ call.lead = 2
         /\ call.q = 2
         /\ Len(call.history) = 2
         /\ call.history[1] = <<"human", QuestionsOf(EmailOther)[1]>>

PopulatedShape(o) == o.hasScore /\ o.hasReason /\ ~o.hasError
ErrorShape(o) == o.hasError /\ ~o.hasScore /\ ~o.hasReason

\* C28: every outcome returned for a lead is either populated (score,
\* reason and structuredFields, no error) or marked with an error (error,
\* no score, no reason), never both and never neither.
C28_OutcomeShapes ==
    /\ \A i \in 1..Len(results) :
         /\ PopulatedShape(results[i]) \/ ErrorShape(results[i])
         /\ ~(PopulatedShape(results[i]) /\ ErrorShape(results[i]))
         /\ ~(results[i].hasError /\ results[i].hasScore)
         /\ results[i].hasError \/ results[i].hasScore
    /\ pc = "done" => \A i \in 1..Len(response.results) :
                         response.results[i] = results[i]

\* C28 witness: a batch has returned one outcome of each shape.
C28_Witness ==
    /\ pc = "done"
    /\ Len(results) = 2
    /\ PopulatedShape(results[1])
    /\ results[1].score = [int |-> 73, frac |-> <<>>]
    /\ results[1].structuredFields = {CityPair, CountryPair}
    /\ ErrorShape(results[2])

\* C29: the scoring call of a lead is in flight only after all questions
\* of the lead, the extraction call only after the scoring call returned a
\* report (a lead whose scoring raised is returned at once, without an
\* extraction call), and both carry the lead's complete list, one entry
\* per question, placeholders included.
C29_ScoreThenExtractOnFullList ==
    /\ \A call \in inflight :
         /\ call.kind = "score"
              => /\ qIdx = NumQuestions
                 /\ scoreReport = NoScoreReport
                 /\ call.evidence = enrichmentResults
                 /\ Len(call.evidence) = NumQuestions
         /\ call.kind = "extract"
              => /\ scoreReport = CannedScoreReport
                 /\ call.evidence = enrichmentResults
                 /\ Len(call.evidence) = NumQuestions
                 /\ Len(results) = call.lead - 1
    /\ pc = "extract" => scoreReport # NoScoreReport
    /\ scoreReport # NoScoreReport
          => (pc \in {"extract", "leadDelay", "done"} /\ Len(enrichmentResults) = NumQuestions)

\* C29 witness: the extraction call of a lead is in flight with a list that
\* holds an answer and a placeholder.
C29_Witness ==
    \E call \in inflight :
        /\ call.kind = "extract"
        /\ Len(call.evidence) = NumQuestions
        /\ \E k \in 1..NumQuestions : Len(call.evidence[k].answer) >= 1
                                        /\ call.evidence[k].answer[1] = "Error: "
        /\ \E k \in 1..NumQuestions : call.evidence[k].answer = <<"a">>

----------------------------------------------------------------------------
(* Properties of the derived company, checked under SpecCompany.           *)

\* The text after the first c of s, and the text before the first c of s
\* (all of s when it holds no c).
AfterFirst(s, c) == SubSeq(s, FindFrom(s, c, 1) + 1, Len(s))
BeforeFirst(s, c) ==
    IF FindFrom(s, c, 1) = 0 THEN s ELSE SubSeq(s, 1, FindFrom(s, c, 1) - 1)

\* C25: for an email that holds '@', the domain is the text after the '@',
\* the company the text of the domain before its first '.', and the
\* returned outcome reports that company.
C25_CompanyFromDomain ==
    fnState = "done"
        => /\ fnOutput.domain = AfterFirst(fnInput, "@")
           /\ fnOutput.company = BeforeFirst(fnOutput.domain, ".")
           /\ fnOutput.reported = fnOutput.company

----------------------------------------------------------------------------
(* Properties of configureModelProviders, checked under SpecProviders.     *)

\* The listing holds the provider and, under it, the model name.
InListing(map, model) ==
    \E i \in 1..Len(map) :
        /\ map[i].provider = model.provider
        /\ \E k \in 1..Len(map[i].models) : map[i].models[k] = model.name

\* The caller asked for a pair and the listing holds it.
RequestedInListing(requested, map) ==
    requested.given /\ InListing(map, [provider |-> requested.provider, name |-> requested.name])

\* The providers of the listing that have a model, by position.
WithModel(map) == { i \in 1..Len(map) : map[i].models # <<>> }

\* The first provider of the listing that has a model, with its first model.
FirstAvailable(map) ==
    LET i == CHOOSE i \in WithModel(map) : \A j \in WithModel(map) : i <= j
    IN  [provider |-> map[i].provider, name |-> map[i].models[1]]

\* What the call is to do for one of the two models: `threw` tells whether
\* the call failed, `model` is the model it returned.
ResolvesAsStated(requested, map, threw, model) ==
    IF RequestedInListing(requested, map)
        THEN ~threw => model = [provider |-> requested.provider, name |-> requested.name]
    ELSE IF WithModel(map) # {}
        THEN ~threw => model = FirstAvailable(map)
    ELSE threw

\* C26: configureModelProviders returns a chat model and an embedding model
\* that both exist in the listing, or fails: a requested pair of the listing
\* is returned unchanged, otherwise the first provider with a model and its
\* first model; without a provider that has a model the call fails.
C26_ResolvedPairExistsOrFails ==
    fnState = "done"
        => /\ ~fnOutput.threw
                => /\ InListing(fnInput.listing.chatModelProviders, fnOutput.value.chatModel)
                   /\ InListing(fnInput.listing.embeddingModelProviders,
                                fnOutput.value.embeddingModel)
           /\ ResolvesAsStated(fnInput.chatModelProvider,
                               fnInput.listing.chatModelProviders,
                               fnOutput.threw, fnOutput.value.chatModel)
           /\ ResolvesAsStated(fnInput.embeddingModelProvider,
                               fnInput.listing.embeddingModelProviders,
                               fnOutput.threw, fnOutput.value.embeddingModel)

----------------------------------------------------------------------------
(* Properties of the POST handler, checked under SpecRoute.                *)

\* The distinct addresses of a body.emails array once trimmed and
\* lower-cased, blank strings and values that are no strings left out.
DistinctNormalized(entries) ==
    { LowerCase(Trim(entries[i].text)) :
        i \in { k \in 1..Len(entries) : entries[k].isString /\ Trim(entries[k].text) # <<>> } }

\* C27: POST never invokes enrichLeads or enrichSingleLead with more than 50
\* emails, and a request whose normalized, de-duplicated list holds more
\* than 50 entries is answered with 400 without an enrichment call.
C27_AtMost50EmailsInvoked ==
    /\ fnOutput.invoked # "none" => Len(fnOutput.emails) <= MAX_EMAILS
    /\ (/\ fnState # "ready"
        /\ fnInput.kind = "array"
        /\ Cardinality(DistinctNormalized(fnInput.emails)) > MAX_EMAILS)
          => (fnState = "responded" /\ fnOutput.status = "400" /\ fnOutput.invoked = "none")

\* C27 witness: a request of 53 entries with 51 distinct addresses has been
\* answered with 400 and no enrichment call was made.
C27_Witness ==
    /\ fnState = "responded"
    /\ Len(fnInput.emails) = MAX_EMAILS + 3
    /\ Cardinality(DistinctNormalized(fnInput.emails)) = MAX_EMAILS + 1
    /\ fnInput.chatModelProvider = "complete"
    /\ fnOutput.status = "400"
    /\ fnOutput.invoked = "none"

\* An address: no blank, one '@' with text before it, and after the '@' a
\* text that holds a '.' with text on both sides.
AddressFormat(e) ==
    LET parts == Split(e, "@")
    IN  /\ \A i \in 1..Len(e) : e[i] \notin Whitespace
        /\ Len(parts) = 2
        /\ parts[1] # <<>>
        /\ \E d \in 2..(Len(parts[2]) - 1) : parts[2][d] = "."

----------------------------------------------------------------------------
(* Further properties of the session and the batch, checked under Spec.    *)

\* The position of question q in the list er (0 when it is not recorded).
RecordedAt(er, q) ==
    IF \E k \in 1..Len(er) : er[k].question = q
    THEN CHOOSE k \in 1..Len(er) : er[k].question = q
    ELSE 0

\* hist is pairs of a human entry with a question of qs and an assistant
\* entry with the answer the list er records for that question, the pairs
\* in the order of the list.
HistoryOfSession(hist, er, qs) ==
    /\ Len(hist) % 2 = 0
    /\ \A j \in 1..(Len(hist) \div 2) :
         /\ hist[2 * j - 1][1] = "human"
         /\ hist[2 * j][1] = "assistant"
         /\ \E k \in 1..Len(qs) : qs[k] = hist[2 * j - 1][2]
         /\ RecordedAt(er, hist[2 * j - 1][2]) > 0
         /\ hist[2 * j][2] = er[RecordedAt(er, hist[2 * j - 1][2])].answer
         /\ j > 1 => RecordedAt(er, hist[2 * j - 3][2]) < RecordedAt(er, hist[2 * j - 1][2])

\* C32: during a session the history has even length and alternates human
\* and assistant entries, human first; a human entry holds a planner
\* question and the assistant entry after it the answer recorded for that
\* question; the pairs follow the order in which the questions were asked.
\* The same holds for the history every chat request carries.
C32_HistoryAlternatesInOrder ==
    /\ leadIdx >= 1 => HistoryOfSession(chatHistory, enrichmentResults, CurrentQuestions)
    /\ \A call \in inflight :
         call.kind = "chat"
            => HistoryOfSession(call.history, enrichmentResults,
                                QuestionsOf(validEmails[call.lead]))

\* C32 witness: the first question of a lead failed, the next two were
\* answered, and the history holds the two answered questions.
C32_Witness ==
    /\ pc = "questionDelay"
    /\ Len(enrichmentResults) = 3
    /\ IsPlaceholder(enrichmentResults[1].answer)
    /\ Len(chatHistory) = 4
    /\ chatHistory[1] = <<"human", CurrentQuestions[2]>>
    /\ chatHistory[4] = <<"assistant", enrichmentResults[3].answer>>

\* The entry of the errors list for a result that carries an error.
ErrorEntry(result) == <<"Failed ">> \o result.email \o <<": ">> \o result.error

\* The entries of the results rs that carry an error, in order.
RECURSIVE ErrorEntries(_)
ErrorEntries(rs) ==
    IF rs = <<>> THEN <<>>
    ELSE (IF Head(rs).hasError THEN <<ErrorEntry(Head(rs))>> ELSE <<>>)
         \o ErrorEntries(Tail(rs))

\* C33: in the outcome the loop of enrichLeads returns, the errors list
\* holds exactly one entry per result that carries an error, in the order
\* of those results, each naming the email and the error text of its
\* result; a result without error has no entry.
C33_OneErrorEntryPerFailedResult ==
    LoopReturned => response.errors = ErrorEntries(response.results)


----------------------------------------------------------------------------
(* Properties of the single-email entry point, checked under SpecSingle.   *)

\* C36: enrichSingleLead(email, options) runs enrichLeads on what a call of
\* enrichLeads with the list [email] and the same options runs it on: the
\* same params object, hence the same emails, valid emails, providers,
\* modes and instructions, which with the answers of the backends are all
\* that the calls and the outcome of enrichLeads depend on.
C36_SingleLeadIsOneElementBatch ==
    fnInput.entry = "enrichSingleLead"
        => /\ fnState # "ready"
                => fnOutput.params = DirectParams(fnInput.email, fnInput.options)
           /\ fnState = "begun"
                => /\ fnOutput.values =
                          ReadParams(DirectParams(fnInput.email, fnInput.options))
                   /\ fnOutput.values.emails = <<fnInput.email>>

\* C36 witness: enrichSingleLead was called with a focus mode and with
\* systemInstructions undefined, and enrichLeads has read its params.
C36_Witness ==
    /\ fnState = "begun"
    /\ fnInput.entry = "enrichSingleLead"
    /\ fnInput.email = EmailUpper
    /\ fnInput.options.defined
    /\ DOMAIN fnInput.options.fields = {"focusMode", "systemInstructions"}
    /\ fnOutput.values.focusMode = "given focusMode"
    /\ fnOutput.values.optimizationMode = "speed"
    /\ fnOutput.values.validEmails = <<Trim(EmailUpper)>>

----------------------------------------------------------------------------
(* SpecSeed: GET requests to the scrape endpoint, one after the other, and *)
(* its module-level seedCache (src/unnamed/part_000).  seedCache holds the  *)
(* seeds stored as own properties of the object; the object also inherits  *)
(* the properties of Object.prototype.                                      *)

HostA == <<"a", ".", "i", "o">>
HostB == <<"z", ".", "i", "o">>
HttpPrefix == <<"h", "t", "t", "p", ":", "/", "/">>
HttpsPrefix == <<"h", "t", "t", "p", "s", ":", "/", "/">>

\* The domain parameters of the requests: two hosts, the first in several
\* spellings, a protocol without a host, and two names that Object.prototype
\* defines.
DomainParams ==
    { HostA, <<"A", ".", "i", "o">>, HttpPrefix \o HostA,
      HttpsPrefix \o <<"A", ".", "i", "o", "/">>, HostA \o <<"/", "/">>,
      HostB, HttpsPrefix, <<"constructor">>, <<"__proto__">> }

\* searchParams.get('domain'): null without the parameter.
ScrapeRequests ==
    {[present |-> FALSE, domain |-> <<>>], [present |-> TRUE, domain |-> <<>>]}
        \cup { [present |-> TRUE, domain |-> d] : d \in DomainParams }

\* What a scrape may read off a page.
Pages == {"page1", "page2"}

\* .replace(/^https?:\/\//, '')
StripProtocol(s) ==
    IF IsPrefix(HttpsPrefix, s) THEN SubSeq(s, Len(HttpsPrefix) + 1, Len(s))
    ELSE IF IsPrefix(HttpPrefix, s) THEN SubSeq(s, Len(HttpPrefix) + 1, Len(s))
    ELSE s

\* .replace(/\/+$/, '')
RECURSIVE StripTrailingSlashes(_)
StripTrailingSlashes(s) ==
    IF s # <<>> /\ s[Len(s)] = "/" THEN StripTrailingSlashes(SubSeq(s, 1, Len(s) - 1))
    ELSE s

\* Line 64.
NormalizeDomain(domain) == StripTrailingSlashes(StripProtocol(LowerCase(domain)))

\* The lower-case property names every object inherits from Object.prototype.
InheritedKeys == { <<"constructor">>, <<"__proto__">> }

NoSeed == [domain |-> <<>>, page |-> ""]

\* A lookup that sees only the stored seeds.
OwnLookup(cache, key) ==
    IF \E seed \in cache : seed.domain = key
    THEN [truthy |-> TRUE, own |-> TRUE, value |-> CHOOSE seed \in cache : seed.domain = key]
    ELSE [truthy |-> FALSE, own |-> FALSE, value |-> NoSeed]

\* seedCache[normalized] of line 67: a stored seed, or what the prototype
\* chain gives for the key (the function Object, or Object.prototype).
Lookup(cache, key) ==
    IF \E seed \in cache : seed.domain = key
    THEN [truthy |-> TRUE, own |-> TRUE, value |-> CHOOSE seed \in cache : seed.domain = key]
    ELSE IF key \in InheritedKeys
    THEN [truthy |-> TRUE, own |-> FALSE, value |-> NoSeed]
    ELSE [truthy |-> FALSE, own |-> FALSE, value |-> NoSeed]

\* seedCache[normalized] = seed of line 144.
Store(cache, seed) == { old \in cache : old.domain # seed.domain } \cup {seed}

\* The responses: served is "cache" for line 68, "scrape" for line 146,
\* "error" for lines 62 and 149.
Served(status, from, body) == [status |-> status, served |-> from, body |-> body]

NoResponseYet == Served("", "none", NoSeed)

InitSeed ==
    /\ fnInput = [present |-> FALSE, domain |-> <<>>]
    /\ fnOutput = NoResponseYet
    /\ fnState = "idle"
    /\ seedCache = {}
    /\ BatchIdle
    /\ StreamIdle

\* GET up to its first await (lines 58-73): 400 without a domain, the value
\* found in seedCache, or the fetch of line 73 is started.  NextResponse.json
\* on the function Object either throws (500) or answers without a body.
GetReceive ==
    /\ fnState = "idle"
    /\ \E request \in ScrapeRequests :
         /\ fnInput' = request
         /\ IF ~request.present \/ request.domain = <<>>
            THEN fnOutput' = Served("400", "error", NoSeed) /\ fnState' = "idle"
            ELSE LET found == Lookup(seedCache, NormalizeDomain(request.domain))
                 IN  IF found.truthy
                     THEN /\ fnState' = "idle"
                          /\ IF ~found.own /\ NormalizeDomain(request.domain) = <<"constructor">>
                             THEN \E status \in {"200", "500"} :
                                     fnOutput' = Served(status, "cache", found.value)
                             ELSE fnOutput' = Served("200", "cache", found.value)
                     ELSE /\ fnState' = "fetching"
                          /\ fnOutput' = NoResponseYet
    /\ UNCHANGED <<seedCache, smVars, batchVars>>

\* fetchHtml settles and GET runs to its end (lines 73-151): a fetched page
\* is parsed, enriched by the fallback where that succeeds, stored and
\* returned; a failed fetch is answered with 500.  A fetch of "https://"
\* has no host and fails.
ScrapeSettle ==
    /\ fnState = "fetching"
    /\ LET normalized == NormalizeDomain(fnInput.domain)
       IN  \/ /\ normalized # <<>>
              /\ \E page \in Pages :
                   LET seed == [domain |-> normalized, page |-> page]
                   IN  /\ seedCache' = Store(seedCache, seed)
                       /\ fnOutput' = Served("200", "scrape", seed)
           \/ /\ fnOutput' = Served("500", "error", NoSeed)
              /\ UNCHANGED seedCache
    /\ fnState' = "idle"
    /\ UNCHANGED <<fnInput, smVars, batchVars>>

NextSeed == GetReceive \/ ScrapeSettle

SpecSeed == InitSeed /\ [][NextSeed]_vars

----------------------------------------------------------------------------
(* Properties of the scrape endpoint, checked under SpecSeed.               *)

\* The domains whose scrape succeeded: the domains of the stored seeds.
Scraped(cache) == { seed.domain : seed \in cache }

\* C37: a domain is served from the cache only after a scrape of it
\* succeeded; a GET for a domain scraped with success, in any spelling with
\* the same normalized form, returns the stored seed and fetches nothing;
\* a GET for any other domain fetches, and a failed scrape stores nothing.
C37_CachedOnlyAfterSuccessfulScrape ==
    [][ /\ (fnState = "idle" /\ fnInput'.present /\ fnInput'.domain # <<>>)
            => LET normalized == NormalizeDomain(fnInput'.domain)
               IN  IF normalized \in Scraped(seedCache)
                   THEN /\ fnState' = "idle"
                        /\ fnOutput' = Served("200", "cache",
                                               OwnLookup(seedCache, normalized).value)
                   ELSE /\ fnState' = "fetching"
                        /\ fnOutput'.served # "cache"
        /\ seedCache' # seedCache
            => (fnState = "fetching" /\ fnOutput'.status = "200")
        /\ (fnState = "fetching" /\ fnOutput'.status = "500") => seedCache' = seedCache ]_vars

============================================================================
